---- MODULE Spec2Model ----
(***************************************************************************)
(* NetWatch streaming pipeline: bounded queues with drop-oldest overflow,  *)
(* the capture-thread bridge, flow-key normalisation, the flow tracker,    *)
(* the time-window buckets, the aggregator task, the detection engine and  *)
(* its consumer task, shutdown, and the LLM gatekeeper.                    *)
(*                                                                         *)
(* Each subsystem has its own specification over its own group of          *)
(* variables; the variables of the other groups stay at their initial      *)
(* value under that specification.                                         *)
(***************************************************************************)
EXTENDS Integers, Sequences, FiniteSets, TLC

VARIABLES
    \* ---- group Q: one asyncio.Queue fed only through safe_put ----------
    tq_maxsize,        \* asyncio.Queue(maxsize=...)
    tq,                \* the queue's items, oldest first
    tq_puts,           \* history: every item handed to safe_put, in call order
    tq_rets,           \* history: the value each safe_put call returned
    \* ---- group M: metrics.METRICS, the process-wide counters -----------
    METRICS,
    \* ---- group C: capture thread, event loop, capture queue ------------
    cap_pc,            \* capture thread: "sniff" | "callback" (inside _packet_callback)
    cap_pkt,           \* the frame the callback was called with
    cap_seen,          \* frames delivered by the sniffer so far
    loop_ready,        \* safe_put coroutines scheduled on the loop, not yet run
    capture_queue,     \* pipeline.capture_queue
    \* ---- group Clk: the clocks ----------------------------------------
    wall,              \* time.time()
    mono,              \* time.monotonic()
    ticks,             \* clock advances so far
    \* ---- group B: TimeWindowBucket instances ---------------------------
    buckets,           \* window size -> the bucket's fields
    b_log,             \* history: every window returned by add or flush, in order
    b_added,           \* history: number of add calls
    b_last,            \* history: what the last bucket call did
    \* ---- group T: one FlowTracker --------------------------------------
    heap,              \* every FlowRecord object ever created; a record's id is its index
    flows,             \* FlowTracker.flows: the dict as (key, record id) pairs in insertion order
    new_flow_count,    \* FlowTracker._new_flow_count
    max_flows,         \* FlowTracker._max_flows
    ttl_seconds,       \* FlowTracker._ttl_seconds
    ft_calls,          \* update calls made so far
    ft_last,           \* history: what the last tracker call did
    \* ---- group A: the Aggregator task and the detection queue ----------
    agg_pc,            \* "created" | "wait" (suspended in wait_for(get)) | "cancelled"
                       \* | "wait_uncancelled" (in wait_for, a cancellation was lost)
    last_expiry_check, \* Aggregator._last_expiry_check
    pending_expired,   \* Aggregator._pending_expired
    stats,             \* Aggregator.stats
    detection_queue,   \* pipeline.detection_queue
    agg_fed,           \* packets put on the capture queue so far
    win_log,           \* history: every window handed to _emit, in order
    agg_last,          \* history: what the last aggregator step did
    \* ---- group E: detection engine, its consumer task, main.run ---------
    e_cooldowns,       \* DetectionEngine._cooldowns: cooldown key -> last fired
    e_stats,           \* DetectionEngine.stats
    e_whitelist,       \* DetectionEngine._whitelist
    e_last,            \* history: what the last engine.analyze call was given and did
    analyzed,          \* history: every window handed to engine.analyze, in order
    alert_queue,       \* pipeline.alert_queue
    alert_puts,        \* history: every alert dict handed to safe_put, in order
    det_pc,            \* detection_consumer: "created" | "wait" | "exited"
    det_fed,           \* windows put on the detection queue by the window source
    shutdown_event,    \* main.run's asyncio.Event
    run_pc,            \* main.run: "running" | "gather" (tasks cancelled) | "stopped"
    \* ---- group G: one LLMGatekeeper and the ExplanationCache it is given --
    g_call_times,      \* LLMGatekeeper._call_times
    g_cooldowns,       \* LLMGatekeeper._cooldowns: "src_ip:rule_name" -> last called
    g_max_calls,       \* LLMGatekeeper.max_calls_per_minute
    g_cache,           \* ExplanationCache: keys in LRU order (oldest first), hits, misses
    g_approved,        \* history: every approved call (alert, time), in order
    g_calls,           \* should_call calls made so far
    g_puts,            \* cache.put calls made so far
    g_last,            \* history: what the last should_call was given and returned
    cache_log,         \* history: every get and put made directly on the cache, in order
    \* ---- group L: one LLMClient (its gatekeeper and cache are group G) ----
    llm_available,     \* LLMClient._available: "None" | "True" | "False"
    llm_stats,         \* LLMClient.stats
    llm_log,           \* history: every explain call, what it was given and did
    llm_pc,            \* llm_consumer: "created" | "wait" | "explain" (awaiting explain) | "exited"
    llm_taken,         \* history: every alert dict llm_consumer took off the alert queue
    ws_alerts,         \* history: every message broadcast on the "alerts" channel
    \* ---- group S: the SQLite database behind Database and AlertRepository --
    db_alerts,         \* table alerts: alert_id -> row
    db_snapshots,      \* table stats_snapshots: rows (id, timestamp), in id order
    db_seq,            \* the AUTOINCREMENT counter of stats_snapshots
    db_versions,       \* table schema_version: the versions recorded
    db_schema,         \* committed schema changes made by migrations
    db_log,            \* history: every storage call, what it was given and did
    \* ---- group K: make_flow_key applied to one packet 5-tuple ----------
    k_in,              \* the packet's (src_ip, dst_ip, src_port, dst_port, protocol)
    k_out,             \* keys computed from it
    k_pc

qVars == <<tq_maxsize, tq, tq_puts, tq_rets>>
mVars == <<METRICS>>
cVars == <<cap_pc, cap_pkt, cap_seen, loop_ready, capture_queue>>
kVars == <<k_in, k_out, k_pc>>
clkVars == <<wall, mono, ticks>>
bVars == <<buckets, b_log, b_added, b_last>>
tVars == <<heap, flows, new_flow_count, max_flows, ttl_seconds, ft_calls, ft_last>>
aVars == <<agg_pc, last_expiry_check, pending_expired, stats, detection_queue,
           agg_fed, win_log, agg_last>>
eVars == <<e_cooldowns, e_stats, e_whitelist, e_last, analyzed, alert_queue,
           alert_puts, det_pc, det_fed, shutdown_event, run_pc>>
gVars == <<g_call_times, g_cooldowns, g_max_calls, g_cache, g_approved, g_calls,
           g_puts, g_last, cache_log>>
lVars == <<llm_available, llm_stats, llm_log, llm_pc, llm_taken, ws_alerts>>
sVars == <<db_alerts, db_snapshots, db_seq, db_versions, db_schema, db_log>>
vars == <<qVars, mVars, cVars, kVars, clkVars, bVars, tVars, aVars, eVars, gVars,
          lVars, sVars>>

\* Everything outside one group (the metrics are shared by all of them).
NotQ == <<cVars, kVars, clkVars, bVars, tVars, aVars, eVars, gVars, lVars, sVars>>
NotC == <<qVars, kVars, clkVars, bVars, tVars, aVars, eVars, gVars, lVars, sVars>>
NotK == <<qVars, mVars, cVars, clkVars, bVars, tVars, aVars, eVars, gVars, lVars, sVars>>
NotT == <<qVars, mVars, cVars, kVars, bVars, aVars, eVars, gVars, lVars, sVars>>
NotB == <<qVars, mVars, cVars, kVars, tVars, aVars, eVars, gVars, lVars, sVars>>
\* What no step of the aggregator task touches.
\* What no step of the detection consumer or of main.run touches, and the
\* aggregator's variables other than the detection queue.
NotE == <<qVars, kVars, cVars, bVars, tVars, gVars, lVars, sVars>>
aRest == <<agg_pc, last_expiry_check, pending_expired, stats, agg_fed, win_log, agg_last>>
NotA == <<qVars, kVars, eVars, gVars, lVars, sVars, cap_pc, cap_pkt, cap_seen, loop_ready, b_log, b_added,
          b_last, max_flows, ttl_seconds, ft_calls, ft_last>>

None == "None"
NoCall == [op |-> "none"]

(***************************************************************************)
(* Bounds                                                                  *)
(***************************************************************************)
MaxCap == 3        \* largest queue capacity tried
MaxPuts == 6       \* safe_put calls per run
NItems == 2        \* distinct item values
MaxPort == 2       \* ports 0..MaxPort
MaxFrames == 5     \* frames the sniffer delivers per run
CaptureSize == 2   \* capacity of the capture queue (init_queues: 10 000)
MaxFlows == 2      \* FlowTracker(max_flows=...) of the tracker on its own
TrackerTtl == 1    \* FlowTracker(ttl_seconds=...) of the tracker on its own
MaxUpdates == 3    \* FlowTracker.update calls per run
MaxWall == 3       \* the wall clock runs 0..MaxWall for the tracker on its own
MaxTicks == 2      \* clock advances per run of a bucket on its own
MaxAdds == 3       \* TimeWindowBucket.add calls per run of a bucket on its own

AggMaxTicks == 1   \* clock advances per run of the aggregator
MaxAggPackets == 2 \* packets put on the capture queue per run of the aggregator
DetectionSize == 3 \* capacity of the detection queue (init_queues: 1 000)

MaxScanFlows == 45 \* most flows in the top_flows of a hand-built window
ScanPorts == 20    \* destination ports 1..ScanPorts of the scan sent through the aggregator
MaxWindows == 2    \* windows put on the detection queue for the consumer on its own
AlertSize == 2     \* capacity of the alert queue (init_queues: 500)

TopFlowsCap == 10  \* time_window.py: top_flows[:10]
EXPIRY_INTERVAL_SECONDS == 30
CAPTURE_QUEUE_SIZE == 10000
MAX_FLOWS_DEFAULT == 50000
FLOW_TTL_DEFAULT == 60

Min(a, b) == IF a <= b THEN a ELSE b
Max(a, b) == IF a >= b THEN a ELSE b

(***************************************************************************)
(* asyncio.Queue and pipeline.safe_put                                     *)
(***************************************************************************)
\* asyncio.Queue.full(): a queue with maxsize <= 0 is never full.
full(queue, maxsize) ==
    IF maxsize <= 0 THEN FALSE ELSE Len(queue) >= maxsize

\* safe_put with the put of the newest item refused instead of the oldest dropped.
safe_put_dropnewest(queue, maxsize, item) ==
    IF full(queue, maxsize)
    THEN [queue |-> queue, dropped |-> 1, ret |-> FALSE]
    ELSE [queue |-> Append(queue, item), dropped |-> 0, ret |-> TRUE]

\* safe_put placing the new item at the head of the queue.
safe_put_front(queue, maxsize, item) ==
    IF full(queue, maxsize)
    THEN [queue |-> <<item>> \o Tail(queue), dropped |-> 1, ret |-> TRUE]
    ELSE [queue |-> <<item>> \o queue, dropped |-> 0, ret |-> TRUE]

\* safe_put(queue, item): the queue after the call, the increment of
\* METRICS.packets_dropped and the returned bool.  The coroutine has no
\* suspension point, so the event loop runs it as one step.
safe_put(queue, maxsize, item) ==
    LET afterDrop ==
            IF full(queue, maxsize)
            THEN IF queue # <<>>
                 THEN [q |-> Tail(queue), d |-> 1]      \* get_nowait(); inc()
                 ELSE [q |-> queue, d |-> 0]            \* except QueueEmpty: pass
            ELSE [q |-> queue, d |-> 0]
    IN  IF ~full(afterDrop.q, maxsize)
        THEN [queue |-> Append(afterDrop.q, item),      \* put_nowait(item)
              dropped |-> afterDrop.d, ret |-> TRUE]
        ELSE [queue |-> afterDrop.q,                    \* except QueueFull
              dropped |-> afterDrop.d + 1, ret |-> FALSE]

\* metrics.Metrics.__init__: every counter starts at 0.
MInit ==
    METRICS = [packets_received |-> 0, packets_parsed_ok |-> 0,
               packets_parse_error |-> 0, packets_dropped |-> 0,
               packets_non_ip |-> 0]

\* Counter.inc(amount) on one counter of METRICS.
inc(m, counter, amount) == [m EXCEPT ![counter] = @ + amount]

QInit ==
    /\ tq_maxsize \in 1..MaxCap
    /\ tq = <<>>
    /\ tq_puts = <<>>
    /\ tq_rets = <<>>

QIdle ==
    /\ tq_maxsize = 1
    /\ tq = <<>>
    /\ tq_puts = <<>>
    /\ tq_rets = <<>>

\* One `await safe_put(q, item)` on the queue, no consumer.
SafePutCall ==
    /\ Len(tq_puts) < MaxPuts
    /\ \E item \in 1..NItems :
        LET r == safe_put(tq, tq_maxsize, item)
        IN  /\ tq' = r.queue
            /\ METRICS' = inc(METRICS, "packets_dropped", r.dropped)
            /\ tq_puts' = Append(tq_puts, item)
            /\ tq_rets' = Append(tq_rets, r.ret)
    /\ UNCHANGED <<tq_maxsize, NotQ>>

(***************************************************************************)
(* capture/sniffer.py: the capture thread and its bridge to the event loop *)
(***************************************************************************)
\* What parse_packet does with a frame: returns a PacketMeta, returns None
\* (no IP layer), or raises.
FrameKinds == {"ip", "non_ip", "malformed"}

CInit ==
    /\ cap_pc = "sniff"
    /\ cap_pkt = None
    /\ cap_seen = 0
    /\ loop_ready = <<>>
    /\ capture_queue = <<>>

CIdle ==
    /\ cap_pc = "idle"
    /\ cap_pkt = None
    /\ cap_seen = 0
    /\ loop_ready = <<>>
    /\ capture_queue = <<>>

\* Scapy's sniffer thread calls prn=self._packet_callback with the next frame.
SnifferDelivers ==
    /\ cap_pc = "sniff"
    /\ cap_seen < MaxFrames
    /\ \E kind \in FrameKinds :
        cap_pkt' = [kind |-> kind, id |-> cap_seen + 1]
    /\ cap_seen' = cap_seen + 1
    /\ cap_pc' = "callback"
    /\ UNCHANGED <<loop_ready, capture_queue, METRICS, NotC>>

\* PacketCapture._packet_callback, in the capture thread: count, parse, and
\* schedule safe_put(self._queue, meta) on the loop; the returned future is
\* not waited for.
PacketCallback ==
    /\ cap_pc = "callback"
    /\ cap_pc' = "sniff"
    /\ cap_pkt' = None
    /\ CASE cap_pkt.kind = "malformed" ->
              /\ METRICS' = inc(inc(METRICS, "packets_received", 1),
                                "packets_parse_error", 1)
              /\ UNCHANGED loop_ready
         [] cap_pkt.kind = "non_ip" ->
              /\ METRICS' = inc(inc(METRICS, "packets_received", 1),
                                "packets_non_ip", 1)
              /\ UNCHANGED loop_ready
         [] cap_pkt.kind = "ip" ->
              /\ METRICS' = inc(inc(METRICS, "packets_received", 1),
                                "packets_parsed_ok", 1)
              /\ loop_ready' = Append(loop_ready, cap_pkt.id)
    /\ UNCHANGED <<cap_seen, capture_queue, NotC>>

\* The scheduled coroutine doing `await queue.put(item)`: it suspends while
\* the queue is full.
LoopRunBlockingPut ==
    /\ loop_ready # <<>>
    /\ ~full(capture_queue, CaptureSize)
    /\ capture_queue' = Append(capture_queue, Head(loop_ready))
    /\ loop_ready' = Tail(loop_ready)
    /\ UNCHANGED <<cap_pc, cap_pkt, cap_seen, METRICS, NotC>>

\* The event loop runs the oldest scheduled safe_put(capture_queue, meta).
LoopRunSafePut ==
    /\ loop_ready # <<>>
    /\ LET r == safe_put(capture_queue, CaptureSize, Head(loop_ready))
       IN  /\ capture_queue' = r.queue
           /\ METRICS' = inc(METRICS, "packets_dropped", r.dropped)
    /\ loop_ready' = Tail(loop_ready)
    /\ UNCHANGED <<cap_pc, cap_pkt, cap_seen, NotC>>

\* The aggregator's `await self._input_q.get()` takes the oldest packet.
ConsumerGet ==
    /\ capture_queue # <<>>
    /\ capture_queue' = Tail(capture_queue)
    /\ UNCHANGED <<cap_pc, cap_pkt, cap_seen, loop_ready, METRICS, NotC>>

(***************************************************************************)
(* aggregation/models.py: FlowKey and make_flow_key                        *)
(***************************************************************************)
\* IP addresses are Python strings, compared lexicographically: "1" < "10" < "2".
IPs == {<<1>>, <<1, 0>>, <<2>>}
Protocols == {"TCP", "UDP"}

\* Python str <= on two strings (sequences of characters).
RECURSIVE StrLE(_, _)
StrLE(a, b) ==
    IF a = <<>> THEN TRUE
    ELSE IF b = <<>> THEN FALSE
    ELSE IF Head(a) < Head(b) THEN TRUE
    ELSE IF Head(a) > Head(b) THEN FALSE
    ELSE StrLE(Tail(a), Tail(b))

FlowKey(src_ip, dst_ip, src_port, dst_port, protocol) ==
    [src_ip |-> src_ip, dst_ip |-> dst_ip, src_port |-> src_port,
     dst_port |-> dst_port, protocol |-> protocol]

\* make_flow_key without the IP tie-break on equal ports.
make_flow_key_notiebreak(src_ip, dst_ip, src_port, dst_port, protocol) ==
    IF src_port <= dst_port
    THEN FlowKey(src_ip, dst_ip, src_port, dst_port, protocol)
    ELSE FlowKey(dst_ip, src_ip, dst_port, src_port, protocol)

make_flow_key(src_ip, dst_ip, src_port, dst_port, protocol) ==
    IF src_port < dst_port
    THEN FlowKey(src_ip, dst_ip, src_port, dst_port, protocol)
    ELSE IF dst_port < src_port
    THEN FlowKey(dst_ip, src_ip, dst_port, src_port, protocol)
    ELSE IF StrLE(src_ip, dst_ip)
    THEN FlowKey(src_ip, dst_ip, src_port, dst_port, protocol)
    ELSE FlowKey(dst_ip, src_ip, dst_port, src_port, protocol)

KInit ==
    /\ k_in \in [src_ip : IPs, dst_ip : IPs, src_port : 0..MaxPort,
                 dst_port : 0..MaxPort, protocol : Protocols]
    /\ k_out = None
    /\ k_pc = "start"

KIdle ==
    /\ k_in = None
    /\ k_out = None
    /\ k_pc = "idle"

\* Key of the packet, of the reversed packet, and of the key's own fields.
ApplyMakeFlowKey ==
    /\ k_pc = "start"
    /\ LET fwd == make_flow_key(k_in.src_ip, k_in.dst_ip, k_in.src_port,
                                k_in.dst_port, k_in.protocol)
           rev == make_flow_key(k_in.dst_ip, k_in.src_ip, k_in.dst_port,
                                k_in.src_port, k_in.protocol)
           again == make_flow_key(fwd.src_ip, fwd.dst_ip, fwd.src_port,
                                  fwd.dst_port, fwd.protocol)
       IN  k_out' = [fwd |-> fwd, rev |-> rev, again |-> again]
    /\ k_pc' = "done"
    /\ UNCHANGED <<k_in, NotK>>

(***************************************************************************)
(* aggregation/models.py FlowRecord, aggregation/flow_tracker.py           *)
(***************************************************************************)
\* FlowRecord(flow_key=key, first_seen=first_seen): last_seen defaults to
\* time.time() at construction, the counters to 0, is_active to True.
FlowRecord(flow_key, first_seen, now_wall) ==
    [flow_key |-> flow_key, first_seen |-> first_seen, last_seen |-> now_wall,
     packet_count |-> 0, byte_count |-> 0, flags_seen |-> {},
     total_payload |-> 0, is_active |-> TRUE]

\* dict operations on the (key, record id) pairs.
DictKeys(d) == {d[i].key : i \in 1..Len(d)}
DictGet(d, key) == (CHOOSE i \in 1..Len(d) : d[i].key = key)
DictOid(d, key) == d[DictGet(d, key)].oid
DictOids(d) == {d[i].oid : i \in 1..Len(d)}
DictPopAll(d, keys) == SelectSeq(d, LAMBDA e : e.key \notin keys)

\* sorted(entries, key=...): stable, ascending in val[entry.oid].
RECURSIVE InsertAsc(_, _, _)
InsertAsc(e, sorted, val) ==
    IF sorted = <<>> THEN <<e>>
    ELSE IF val[Head(sorted).oid] <= val[e.oid]
    THEN <<Head(sorted)>> \o InsertAsc(e, Tail(sorted), val)
    ELSE <<e>> \o sorted

RECURSIVE SortedAsc(_, _)
SortedAsc(d, val) ==
    IF d = <<>> THEN <<>>
    ELSE InsertAsc(d[Len(d)], SortedAsc(SubSeq(d, 1, Len(d) - 1), val), val)

\* sorted(entries, key=..., reverse=True): stable, descending.
RECURSIVE InsertDesc(_, _, _)
InsertDesc(e, sorted, val) ==
    IF sorted = <<>> THEN <<e>>
    ELSE IF val[Head(sorted).oid] >= val[e.oid]
    THEN <<Head(sorted)>> \o InsertDesc(e, Tail(sorted), val)
    ELSE <<e>> \o sorted

RECURSIVE SortedDesc(_, _)
SortedDesc(d, val) ==
    IF d = <<>> THEN <<>>
    ELSE InsertDesc(d[Len(d)], SortedDesc(SubSeq(d, 1, Len(d) - 1), val), val)

\* s[:n] for n >= 0.
Prefix(s, n) == SubSeq(s, 1, Min(n, Len(s)))

\* _evict_oldest evicting from the wrong end of the sorted list.
evict_newest(d, h, cap) ==
    LET n == Len(d) - cap
    IN  IF n <= 0 THEN <<>>
        ELSE Prefix(SortedDesc(d, [o \in 1..Len(h) |-> h[o].last_seen]), n)

\* FlowTracker._evict_oldest: the entries it pops, in pop order.
evict_oldest(d, h, cap) ==
    LET n == Len(d) - cap
    IN  IF n <= 0 THEN <<>>
        ELSE Prefix(SortedAsc(d, [o \in 1..Len(h) |-> h[o].last_seen]), n)

\* FlowTracker.update with last_seen never moved backwards.
update_stats_monotone(r, packet) ==
    [r EXCEPT !.last_seen = Max(r.first_seen, packet.timestamp),
              !.packet_count = @ + 1,
              !.byte_count = @ + packet.payload_size,
              !.total_payload = @ + packet.payload_size,
              !.flags_seen = IF packet.flags # "" THEN @ \cup {packet.flags} ELSE @]

\* FlowTracker.update, lines 84-90: the statistics of the packet's record.
update_stats(r, packet) ==
    [r EXCEPT !.last_seen = packet.timestamp,
              !.packet_count = @ + 1,
              !.byte_count = @ + packet.payload_size,
              !.total_payload = @ + packet.payload_size,
              !.flags_seen = IF packet.flags # "" THEN @ \cup {packet.flags} ELSE @]

\* FlowTracker.update(packet) at wall-clock time now_wall.  Returns the new
\* dict, heap and new-flow counter, the id of the returned record, and for
\* the history the entries evicted and the heap as _evict_oldest saw it.
FT_update(d, h, nfc, cap, packet, now_wall) ==
    LET key == make_flow_key(packet.src_ip, packet.dst_ip, packet.src_port,
                             packet.dst_port, packet.protocol)
        known == key \in DictKeys(d)
        oid == IF known THEN DictOid(d, key) ELSE Len(h) + 1
        h1 == IF known
              THEN [h EXCEPT ![oid].is_active = TRUE]
              ELSE Append(h, FlowRecord(key, packet.timestamp, now_wall))
        d1 == IF known THEN d ELSE Append(d, [key |-> key, oid |-> oid])
        gone == IF ~known /\ Len(d1) > cap THEN evict_oldest(d1, h1, cap) ELSE <<>>
        d2 == DictPopAll(d1, {gone[i].key : i \in 1..Len(gone)})
    IN  [flows |-> d2,
         heap |-> [h1 EXCEPT ![oid] = update_stats(@, packet)],
         new_flow_count |-> IF known THEN nfc ELSE nfc + 1,
         ret |-> oid,
         inserted |-> ~known,
         size_after_insert |-> Len(d1),
         evicted |-> [i \in 1..Len(gone) |-> gone[i].oid],
         seen_by_evict |-> [o \in DictOids(d1) |-> h1[o].last_seen]]

\* FlowTracker.expire_flows(None) at wall-clock time now_wall.
FT_expire_flows(d, h, ttl, now_wall) ==
    LET cutoff == now_wall - ttl
        keys_to_remove == {d[i].key : i \in {j \in 1..Len(d) : h[d[j].oid].last_seen < cutoff}}
        expired == SelectSeq(d, LAMBDA e : e.key \in keys_to_remove)
        oids == {expired[i].oid : i \in 1..Len(expired)}
    IN  [flows |-> DictPopAll(d, keys_to_remove),
         heap |-> [o \in 1..Len(h) |->
                      IF o \in oids THEN [h[o] EXCEPT !.is_active = FALSE] ELSE h[o]],
         expired |-> [i \in 1..Len(expired) |-> expired[i].oid]]

\* FlowTracker.get_top_flows(n): the record ids, highest packet_count first.
\* The list is new; its elements are the tracker's own record objects.
FT_get_top_flows(d, h, n) ==
    LET sorted_flows == SortedDesc(d, [o \in 1..Len(h) |-> h[o].packet_count])
        top == Prefix(sorted_flows, n)
    IN  [i \in 1..Len(top) |-> top[i].oid]

\* The packets fed to the tracker on its own: three flows, one of them seen
\* in both directions, with any timestamp of TrackerTimestamps.
TrackerTimestamps == {0, 2, 5}
TrackerShapes ==
    { [src_ip |-> <<1>>, dst_ip |-> <<2>>, src_port |-> 1, dst_port |-> 5,
       protocol |-> "TCP", flags |-> "SYN", payload_size |-> 0],
      [src_ip |-> <<2>>, dst_ip |-> <<1>>, src_port |-> 5, dst_port |-> 1,
       protocol |-> "TCP", flags |-> "SYN-ACK", payload_size |-> 3],
      [src_ip |-> <<1>>, dst_ip |-> <<2>>, src_port |-> 2, dst_port |-> 5,
       protocol |-> "TCP", flags |-> "", payload_size |-> 3],
      [src_ip |-> <<1>>, dst_ip |-> <<2>>, src_port |-> 3, dst_port |-> 5,
       protocol |-> "UDP", flags |-> "", payload_size |-> 0] }
PacketMeta(shape, timestamp) ==
    [timestamp |-> timestamp, src_ip |-> shape.src_ip, dst_ip |-> shape.dst_ip,
     src_port |-> shape.src_port, dst_port |-> shape.dst_port,
     protocol |-> shape.protocol, flags |-> shape.flags,
     payload_size |-> shape.payload_size]

\* FlowTracker.__init__(max_flows, ttl_seconds)
TInit ==
    /\ heap = <<>>
    /\ flows = <<>>
    /\ new_flow_count = 0
    /\ max_flows = MaxFlows
    /\ ttl_seconds = TrackerTtl
    /\ ft_calls = 0
    /\ ft_last = NoCall

TIdle ==
    /\ heap = <<>>
    /\ flows = <<>>
    /\ new_flow_count = 0
    /\ max_flows = 0
    /\ ttl_seconds = 0
    /\ ft_calls = 0
    /\ ft_last = NoCall

\* tracker.update(packet)
TrackerUpdate ==
    /\ ft_calls < MaxUpdates
    /\ \E shape \in TrackerShapes, ts \in TrackerTimestamps :
        LET r == FT_update(flows, heap, new_flow_count, max_flows,
                           PacketMeta(shape, ts), wall)
        IN  /\ flows' = r.flows
            /\ heap' = r.heap
            /\ new_flow_count' = r.new_flow_count
            /\ ft_last' = [op |-> "update", ret |-> r.ret,
                           inserted |-> r.inserted,
                           size_after_insert |-> r.size_after_insert,
                           evicted |-> r.evicted,
                           seen_by_evict |-> r.seen_by_evict]
    /\ ft_calls' = ft_calls + 1
    /\ UNCHANGED <<clkVars, max_flows, ttl_seconds, NotT>>

\* tracker.expire_flows()
TrackerExpire ==
    /\ LET r == FT_expire_flows(flows, heap, ttl_seconds, wall)
       IN  /\ flows' = r.flows
           /\ heap' = r.heap
           /\ ft_last' = [op |-> "expire", expired |-> r.expired]
    /\ UNCHANGED <<clkVars, new_flow_count, max_flows, ttl_seconds, ft_calls, NotT>>

\* One second passes.
TrackerTick ==
    /\ wall < MaxWall
    /\ wall' = wall + 1
    /\ mono' = mono + 1
    /\ ticks' = ticks + 1
    /\ UNCHANGED <<tVars, NotT>>

(***************************************************************************)
(* The clocks                                                              *)
(***************************************************************************)
ClkInit ==
    /\ wall = 0
    /\ mono = 0
    /\ ticks = 0

\* Seconds by which the clocks advance between two steps of the aggregation
\* code: 1 = the 1 s horizon, 1 + 9 = the 10 s horizon, 1 + 9 + 50 = the 60 s
\* horizon, and 9 and 9 + 50 fall one second short of a horizon.
TickSteps == {1, 9, 50}

\* Time passes.
Tick ==
    /\ ticks < MaxTicks
    /\ \E d \in TickSteps :
        /\ mono' = mono + d
        /\ wall' = wall + d
    /\ ticks' = ticks + 1
    /\ UNCHANGED <<bVars, NotB>>

(***************************************************************************)
(* aggregation/time_window.py: TimeWindowBucket                            *)
(***************************************************************************)
\* The sizes TimeWindowBucket.__init__ accepts.
WindowSizes == {1, 10, 60}

\* dict.get(key, 0) on a dict modelled as a function.
DictGet0(f, key) == IF key \in DOMAIN f THEN f[key] ELSE 0

\* TimeWindowBucket._reset at the given clock readings.
reset(now_mono, now_wall) ==
    [window_start_mono |-> now_mono, window_start_wall |-> now_wall,
     total_packets |-> 0, total_bytes |-> 0,
     unique_src_ips |-> {}, unique_dst_ips |-> {}, unique_dst_ports |-> {},
     protocol_counts |-> [p \in {} |-> 0]]

\* TimeWindowBucket._accumulate
accumulate(b, packet) ==
    [b EXCEPT !.total_packets = @ + 1,
              !.total_bytes = @ + packet.payload_size,
              !.unique_src_ips = @ \cup {packet.src_ip},
              !.unique_dst_ips = @ \cup {packet.dst_ip},
              !.unique_dst_ports = IF packet.dst_port # 0
                                   THEN @ \cup {packet.dst_port} ELSE @,
              !.protocol_counts =
                  [p \in DOMAIN @ \cup {packet.protocol} |->
                      IF p = packet.protocol THEN DictGet0(@, p) + 1 ELSE @[p]]]

\* TimeWindowBucket._seal: the AggregatedWindow.  top_flows is a new list of
\* the same record objects (ids).
seal(b, size, top_flows, flows_started, flows_ended, now_wall) ==
    [window_start |-> b.window_start_wall, window_end |-> now_wall,
     window_size_seconds |-> size,
     total_packets |-> b.total_packets, total_bytes |-> b.total_bytes,
     unique_src_ips |-> b.unique_src_ips, unique_dst_ips |-> b.unique_dst_ips,
     unique_dst_ports |-> b.unique_dst_ports,
     protocol_counts |-> b.protocol_counts,
     top_flows |-> Prefix(top_flows, TopFlowsCap),
     flows_started |-> flows_started, flows_ended |-> flows_ended]

\* TimeWindowBucket.add sealing only once more than the size has elapsed.
add_late(b, size, packet, top_flows, flows_started, flows_ended, now_mono, now_wall) ==
    IF now_mono - b.window_start_mono > size
    THEN [completed |-> <<seal(b, size, top_flows, flows_started, flows_ended, now_wall)>>,
          bucket |-> accumulate(reset(now_mono, now_wall), packet)]
    ELSE [completed |-> <<>>, bucket |-> accumulate(b, packet)]

\* TimeWindowBucket.add counting the triggering packet in the sealed window.
add_into_sealed(b, size, packet, top_flows, flows_started, flows_ended, now_mono, now_wall) ==
    IF now_mono - b.window_start_mono >= size
    THEN [completed |-> <<seal(accumulate(b, packet), size, top_flows,
                               flows_started, flows_ended, now_wall)>>,
          bucket |-> accumulate(reset(now_mono, now_wall), packet)]
    ELSE [completed |-> <<>>, bucket |-> accumulate(b, packet)]

\* TimeWindowBucket.add: the returned window (<<w>>, or <<>> for None) and the
\* bucket after.
add(b, size, packet, top_flows, flows_started, flows_ended, now_mono, now_wall) ==
    IF now_mono - b.window_start_mono >= size
    THEN [completed |-> <<seal(b, size, top_flows, flows_started, flows_ended, now_wall)>>,
          bucket |-> accumulate(reset(now_mono, now_wall), packet)]
    ELSE [completed |-> <<>>, bucket |-> accumulate(b, packet)]

\* TimeWindowBucket.flush that also emits an empty window.
flush_always(b, size, top_flows, flows_started, flows_ended, now_mono, now_wall) ==
    [completed |-> <<seal(b, size, top_flows, flows_started, flows_ended, now_wall)>>,
     bucket |-> reset(now_mono, now_wall)]

\* TimeWindowBucket.flush: the returned window (<<w>>, or <<>> for None) and
\* the bucket after.
flush(b, size, top_flows, flows_started, flows_ended, now_mono, now_wall) ==
    IF b.total_packets = 0
    THEN [completed |-> <<>>, bucket |-> b]
    ELSE [completed |-> <<seal(b, size, top_flows, flows_started, flows_ended, now_wall)>>,
          bucket |-> reset(now_mono, now_wall)]

\* The packets fed to a bucket on its own: two that differ in every field
\* the bucket accumulates.
BucketShapes == {s \in TrackerShapes : s.src_port \in {3, 5}}

\* One bucket on its own: TimeWindowBucket(size) for one of the three sizes.
BInit ==
    /\ \E size \in WindowSizes : buckets = [s \in {size} |-> reset(0, 0)]
    /\ b_log = <<>>
    /\ b_added = 0
    /\ b_last = NoCall

BIdle ==
    /\ buckets = [s \in {} |-> None]
    /\ b_log = <<>>
    /\ b_added = 0
    /\ b_last = NoCall

\* bucket.add(packet, flow_record) with the defaults top_flows=None,
\* flows_started=0, flows_ended=0.
BucketAdd ==
    /\ b_added < MaxAdds
    /\ \E size \in DOMAIN buckets, shape \in BucketShapes :
        LET packet == PacketMeta(shape, wall)
            r == add(buckets[size], size, packet, <<>>, 0, 0, mono, wall)
        IN  /\ buckets' = [buckets EXCEPT ![size] = r.bucket]
            /\ b_log' = b_log \o r.completed
            /\ b_last' = [op |-> "add", size |-> size, packet |-> packet,
                          now |-> mono,
                          elapsed |-> mono - buckets[size].window_start_mono,
                          before |-> buckets[size], ret |-> r.completed,
                          log_before |-> Len(b_log)]
    /\ b_added' = b_added + 1
    /\ UNCHANGED <<clkVars, NotB>>

\* bucket.flush()
BucketFlush ==
    /\ b_last.op # "flush"
    /\ \E size \in DOMAIN buckets :
        LET r == flush(buckets[size], size, <<>>, 0, 0, mono, wall)
        IN  /\ buckets' = [buckets EXCEPT ![size] = r.bucket]
            /\ b_log' = b_log \o r.completed
            /\ b_last' = [op |-> "flush", size |-> size,
                          before |-> buckets[size], ret |-> r.completed,
                          log_before |-> Len(b_log)]
    /\ UNCHANGED <<clkVars, b_added, NotB>>

(***************************************************************************)
(* aggregation/aggregator.py: Aggregator                                   *)
(***************************************************************************)
BucketOrderDescending == <<60, 10, 1>>

\* self._buckets.values(): the dict's insertion order.
BucketOrder == <<1, 10, 60>>

\* _process_one, lines 104-109: the periodic expiry check.
expiry_check(d, h, ttl, pend, st, last, now_mono, now_wall) ==
    IF now_mono - last >= EXPIRY_INTERVAL_SECONDS
    THEN LET r == FT_expire_flows(d, h, ttl, now_wall)
         IN  [flows |-> r.flows, heap |-> r.heap,
              pending_expired |-> pend + Len(r.expired),
              stats |-> [st EXCEPT !.flows_expired_total = @ + Len(r.expired)],
              last_expiry_check |-> now_mono]
    ELSE [flows |-> d, heap |-> h, pending_expired |-> pend, stats |-> st,
          last_expiry_check |-> last]

\* _process_one, lines 140-147: bucket.add on every bucket, in dict order;
\* the windows completed, in that order.
RECURSIVE add_all(_, _, _, _, _, _, _, _)
add_all(bk, order, packet, top_flows, flows_started, flows_ended, now_mono, now_wall) ==
    IF order = <<>> THEN [buckets |-> bk, completed |-> <<>>]
    ELSE LET size == Head(order)
             r == add(bk[size], size, packet, top_flows, flows_started,
                      flows_ended, now_mono, now_wall)
             rest == add_all([bk EXCEPT ![size] = r.bucket], Tail(order), packet,
                             top_flows, flows_started, flows_ended, now_mono, now_wall)
         IN  [buckets |-> rest.buckets, completed |-> r.completed \o rest.completed]

\* _flush_all, lines 161-168: bucket.flush on every bucket, in dict order.
RECURSIVE flush_all(_, _, _, _, _)
flush_all(bk, order, top_flows, now_mono, now_wall) ==
    IF order = <<>> THEN [buckets |-> bk, completed |-> <<>>]
    ELSE LET size == Head(order)
             r == flush(bk[size], size, top_flows, 0, 0, now_mono, now_wall)
             rest == flush_all([bk EXCEPT ![size] = r.bucket], Tail(order),
                               top_flows, now_mono, now_wall)
         IN  [buckets |-> rest.buckets, completed |-> r.completed \o rest.completed]

\* Aggregator._emit on each window in turn: the queue after, the drops
\* counted by safe_put and the number of windows counted as emitted.
RECURSIVE emit_all(_, _, _)
emit_all(queue, maxsize, windows) ==
    IF windows = <<>> THEN [queue |-> queue, dropped |-> 0, emitted |-> 0]
    ELSE LET r == safe_put(queue, maxsize, Head(windows))
             rest == emit_all(r.queue, maxsize, Tail(windows))
         IN  [queue |-> rest.queue, dropped |-> r.dropped + rest.dropped,
              emitted |-> (IF r.ret THEN 1 ELSE 0) + rest.emitted]

\* Aggregator.__init__ (FlowTracker(ttl_seconds=flow_ttl), three buckets) and
\* an empty detection queue; the task is created and has not run yet.
AInit ==
    /\ agg_pc = "created"
    /\ last_expiry_check = 0
    /\ pending_expired = 0
    /\ stats = [packets_processed |-> 0, flows_active |-> 0,
                flows_expired_total |-> 0, windows_emitted |-> 0]
    /\ detection_queue = <<>>
    /\ agg_fed = 0
    /\ win_log = <<>>
    /\ agg_last = NoCall
    /\ buckets = [s \in WindowSizes |-> reset(0, 0)]
    /\ b_log = <<>>
    /\ b_added = 0
    /\ b_last = NoCall
    /\ heap = <<>>
    /\ flows = <<>>
    /\ new_flow_count = 0
    /\ max_flows = MAX_FLOWS_DEFAULT
    /\ ttl_seconds = FLOW_TTL_DEFAULT
    /\ ft_calls = 0
    /\ ft_last = NoCall

AIdle ==
    /\ agg_pc = "idle"
    /\ last_expiry_check = 0
    /\ pending_expired = 0
    /\ stats = [packets_processed |-> 0, flows_active |-> 0,
                flows_expired_total |-> 0, windows_emitted |-> 0]
    /\ detection_queue = <<>>
    /\ agg_fed = 0
    /\ win_log = <<>>
    /\ agg_last = NoCall

\* Time passes while the aggregator runs: a step that ends the 1 s window
\* only, or one that ends all three windows and outlives the flow TTL.
AggTickSteps == {1, 61}

AggTick ==
    /\ agg_pc \in {"created", "wait"}
    /\ ticks < AggMaxTicks
    /\ \E d \in AggTickSteps :
        /\ mono' = mono + d
        /\ wall' = wall + d
    /\ ticks' = ticks + 1
    /\ UNCHANGED <<aVars, tVars, bVars, mVars, cVars, qVars, kVars, eVars, gVars,
                   lVars, sVars>>

\* The event loop runs a safe_put(capture_queue, meta) scheduled by the
\* capture thread; the packet carries the capture time.
CaptureFeed ==
    /\ agg_pc = "wait"
    /\ agg_fed < MaxAggPackets
    /\ \E shape \in BucketShapes :
        LET r == safe_put(capture_queue, CaptureSize, PacketMeta(shape, wall))
        IN  /\ capture_queue' = r.queue
            /\ METRICS' = inc(METRICS, "packets_dropped", r.dropped)
    /\ agg_fed' = agg_fed + 1
    /\ UNCHANGED <<agg_pc, last_expiry_check, pending_expired, stats,
                   detection_queue, win_log, agg_last, clkVars, buckets,
                   heap, flows, new_flow_count, NotA>>

\* The task's first step: run() enters the loop, _process_one runs its expiry
\* check and suspends in wait_for(self._input_q.get(), timeout=1.0).
AggStart ==
    /\ agg_pc = "created"
    /\ LET e == expiry_check(flows, heap, ttl_seconds, pending_expired, stats,
                             last_expiry_check, mono, wall)
       IN  /\ flows' = e.flows
           /\ heap' = e.heap
           /\ pending_expired' = e.pending_expired
           /\ stats' = e.stats
           /\ last_expiry_check' = e.last_expiry_check
    /\ agg_pc' = "wait"
    /\ agg_last' = [op |-> "start"]
    /\ UNCHANGED <<detection_queue, agg_fed, win_log, clkVars, buckets,
                   new_flow_count, capture_queue, METRICS, NotA>>

\* wait_for times out on an empty queue: record flows_active, return, and the
\* next _process_one runs its expiry check and suspends again.
AggTimeout ==
    /\ agg_pc = "wait"
    /\ capture_queue = <<>>
    /\ LET st == [stats EXCEPT !.flows_active = Len(flows)]
           e == expiry_check(flows, heap, ttl_seconds, pending_expired, st,
                             last_expiry_check, mono, wall)
       IN  /\ flows' = e.flows
           /\ heap' = e.heap
           /\ pending_expired' = e.pending_expired
           /\ stats' = e.stats
           /\ last_expiry_check' = e.last_expiry_check
    /\ agg_last' = [op |-> "timeout"]
    /\ UNCHANGED <<agg_pc, detection_queue, agg_fed, win_log, clkVars, buckets,
                   new_flow_count, capture_queue, METRICS, NotA>>

\* A packet is dequeued: the rest of _process_one (tracker update, the three
\* bucket adds, _emit of every completed window) runs without suspending,
\* then the next _process_one runs its expiry check and suspends.
AggProcess ==
    /\ agg_pc \in {"wait", "wait_uncancelled"}
    /\ capture_queue # <<>>
    /\ \E packet \in {Head(capture_queue)} :
       \E u \in {FT_update(flows, heap, new_flow_count, max_flows, packet, wall)} :
       \E flows_started \in {u.new_flow_count} :        \* pop_new_flow_count()
       \E flows_ended \in {pending_expired} :
       \E top_flows \in {FT_get_top_flows(u.flows, u.heap, TopFlowsCap)} :
       \E a \in {add_all(buckets, BucketOrder, packet, top_flows, flows_started,
                          flows_ended, mono, wall)} :
       \E em \in {emit_all(detection_queue, DetectionSize, a.completed)} :
       \E st \in {[stats EXCEPT !.packets_processed = @ + 1,
                                !.flows_active = Len(u.flows),
                                !.windows_emitted = @ + em.emitted]} :
       \E e \in {expiry_check(u.flows, u.heap, ttl_seconds, 0, st,
                               last_expiry_check, mono, wall)} :
           /\ capture_queue' = Tail(capture_queue)
           /\ flows' = e.flows
           /\ heap' = e.heap
           /\ new_flow_count' = 0
           /\ pending_expired' = e.pending_expired
           /\ stats' = e.stats
           /\ last_expiry_check' = e.last_expiry_check
           /\ buckets' = a.buckets
           /\ detection_queue' = em.queue
           /\ METRICS' = inc(METRICS, "packets_dropped", em.dropped)
           /\ win_log' = win_log \o a.completed
           /\ agg_last' = [op |-> "packet", packet |-> packet, ret |-> u.ret,
                           completed |-> a.completed]
    /\ UNCHANGED <<agg_pc, agg_fed, clkVars, NotA>>

\* task.cancel() while the task is suspended in wait_for: CancelledError is
\* raised there, run() awaits _flush_all() (no suspension point) and re-raises.
AggCancel ==
    /\ agg_pc = "wait"
    /\ \E f \in {flush_all(buckets, BucketOrder,
                             FT_get_top_flows(flows, heap, TopFlowsCap), mono, wall)} :
       LET em == emit_all(detection_queue, DetectionSize, f.completed)
       IN  /\ buckets' = f.buckets
           /\ detection_queue' = em.queue
           /\ METRICS' = inc(METRICS, "packets_dropped", em.dropped)
           /\ stats' = [stats EXCEPT !.windows_emitted = @ + em.emitted]
           /\ win_log' = win_log \o f.completed
           /\ agg_last' = [op |-> "cancel", completed |-> f.completed,
                           before |-> buckets]
    /\ agg_pc' = "cancelled"
    /\ UNCHANGED <<last_expiry_check, pending_expired, agg_fed, clkVars,
                   heap, flows, new_flow_count, capture_queue, NotA>>

\* task.cancel() before the task's first step: the coroutine never enters
\* run()'s try block.
AggCancelUnstarted ==
    /\ agg_pc = "created"
    /\ agg_pc' = "cancelled"
    /\ agg_last' = [op |-> "cancel_unstarted"]
    /\ UNCHANGED <<last_expiry_check, pending_expired, stats, detection_queue,
                   agg_fed, win_log, clkVars, buckets, heap, flows,
                   new_flow_count, capture_queue, METRICS, NotA>>

\* detection_consumer takes the oldest window off the detection queue.
DetectionGet ==
    /\ agg_pc = "wait"
    /\ detection_queue # <<>>
    /\ detection_queue' = Tail(detection_queue)
    /\ UNCHANGED <<agg_pc, last_expiry_check, pending_expired, stats, agg_fed,
                   win_log, agg_last, clkVars, buckets, heap, flows,
                   new_flow_count, capture_queue, METRICS, NotA>>

(***************************************************************************)
(* engine/engine.py: DetectionEngine                                       *)
(*                                                                         *)
(* Text is a sequence of tokens, so that formatting a cooldown key is a    *)
(* concatenation and two keys are equal only when the texts are.  A        *)
(* confidence is the exact fraction num/den.                               *)
(***************************************************************************)
Lt(a, b) == a.num * b.den < b.num * a.den

\* str() of an address: the digits as text.
str(ip) == [i \in 1..Len(ip) |-> <<"0", "1", "2", "3", "4", "5", "6", "7", "8", "9">>[ip[i] + 1]]

CONFIDENCE_THRESHOLD == [num |-> 3, den |-> 10]
ALERT_COOLDOWN_SECONDS == 30

\* engine.rules: two of the loaded rules, in load order, with their defaults.
EngineRules ==
    << [name |-> <<"port_scan">>, severity |-> "HIGH"],
       [name |-> <<"syn_flood">>, severity |-> "CRITICAL"] >>

\* A rule that raises from analyze(): _safe_analyze lets the exception out.
safe_analyze_propagate(outcome) == outcome

\* _safe_analyze: what rule.analyze(window) did (a RuleResult or an
\* exception) turned into a RuleResult.
safe_analyze(outcome) ==
    IF outcome.kind = "raise"
    THEN [kind |-> "result", triggered |-> FALSE, confidence |-> [num |-> 0, den |-> 1],
          evidence |-> <<>>]
    ELSE outcome

\* _make_alert
make_alert(rule, result, window, now) ==
    LET e == result.evidence
        has(k) == k \in DOMAIN e
    IN  [rule_name |-> rule.name,
         severity |-> IF has("severity") /\ e.severity \in {"LOW", "MEDIUM", "HIGH", "CRITICAL"}
                      THEN e.severity ELSE rule.severity,
         confidence |-> result.confidence,
         src_ip |-> IF has("src_ip") /\ e.src_ip # <<>> THEN str(e.src_ip)
                    ELSE IF has("src_ips") /\ e.src_ips # <<>> THEN str(e.src_ips[1])
                    ELSE <<"unknown">>,
         dst_ip |-> IF has("dst_ip") THEN str(e.dst_ip) ELSE <<"multiple">>,
         evidence |-> e,
         timestamp |-> now,
         window_start |-> window.window_start,
         window_end |-> window.window_end,
         window_size_seconds |-> window.window_size_seconds]

\* A whitelist check that lets every source through.
whitelisted_never(src_ip, whitelist) == FALSE

\* alert.src_ip in self._whitelist
whitelisted(src_ip, whitelist) == src_ip \in whitelist

\* A cooldown key that leaves the source address out.
cooldown_key_rule_only(rule_name, src_ip) == rule_name

\* f"{rule.name}:{alert.src_ip}"
cooldown_key(rule_name, src_ip) == rule_name \o <<":">> \o src_ip

\* The loop of analyze over the remaining rules; an exception that leaves
\* _safe_analyze ends the call (raised).
RECURSIVE analyze_loop(_, _, _, _, _, _)
analyze_loop(rules, outcomes, window, now, whitelist, acc) ==
    IF rules = <<>> \/ acc.raised THEN acc
    ELSE LET rule == Head(rules)
             result == safe_analyze(Head(outcomes))
             alert == make_alert(rule, result, window, now)
             key == cooldown_key(rule.name, alert.src_ip)
             last_fired == IF key \in DOMAIN acc.cooldowns THEN acc.cooldowns[key] ELSE 0
             next ==
                 IF result.kind = "raise" THEN [acc EXCEPT !.raised = TRUE]
                 ELSE IF ~result.triggered THEN acc
                 ELSE IF Lt(result.confidence, CONFIDENCE_THRESHOLD)
                 THEN [acc EXCEPT !.stats.alerts_suppressed = @ + 1]
                 ELSE IF whitelisted(alert.src_ip, whitelist)
                 THEN [acc EXCEPT !.stats.alerts_whitelisted = @ + 1]
                 ELSE IF now - last_fired < ALERT_COOLDOWN_SECONDS
                 THEN [acc EXCEPT !.stats.alerts_cooldown = @ + 1]
                 ELSE [acc EXCEPT !.cooldowns = (key :> now) @@ @,
                                  !.alerts = Append(@, alert),
                                  !.stats.alerts_fired = @ + 1]
         IN  analyze_loop(Tail(rules), Tail(outcomes), window, now, whitelist, next)

\* analyze without the windows_analyzed count.
analyze_uncounted(cooldowns, engine_stats, whitelist, rules, outcomes, window, now) ==
    analyze_loop(rules, outcomes, window, now, whitelist,
                 [cooldowns |-> cooldowns, stats |-> engine_stats,
                  alerts |-> <<>>, raised |-> FALSE])

\* DetectionEngine.analyze(window) at time now, given what each rule's
\* analyze does on this window: the alerts returned, the cooldown map and
\* the stats after.
analyze(cooldowns, engine_stats, whitelist, rules, outcomes, window, now) ==
    analyze_loop(rules, outcomes, window, now, whitelist,
                 [cooldowns |-> cooldowns,
                  stats |-> [engine_stats EXCEPT !.windows_analyzed = @ + 1],
                  alerts |-> <<>>, raised |-> FALSE])

(***************************************************************************)
(* main.py: detection_consumer and the shutdown sequence of run()          *)
(***************************************************************************)
\* time.time() when the program starts: later than one cooldown after 0.
EPOCH == 1000

\* What the rules' analyze(window) can do on one window. The first rule
\* raises, does not trigger, triggers below the confidence threshold, or
\* triggers naming its source in src_ip, in src_ips or not at all; the
\* second rule raises or triggers.
DetectOutcomes ==
    LET result(t, c, e) == [kind |-> "result", triggered |-> t,
                            confidence |-> [num |-> c, den |-> 100], evidence |-> e]
        first == { [kind |-> "raise"],
                   result(FALSE, 0, <<>>),
                   result(TRUE, 20, [src_ip |-> <<1>>]),
                   result(TRUE, 80, [src_ip |-> <<1>>]),
                   result(TRUE, 80, [src_ips |-> << <<2>>, <<1>> >>]),
                   result(TRUE, 80, <<>>) }
        second == { [kind |-> "raise"], result(TRUE, 80, [src_ip |-> <<1>>]) }
    IN  { <<o1, o2>> : o1 \in first, o2 \in second }

\* No rule triggers: what the rules do on a window of a handful of packets.
QuietOutcomes ==
    LET quiet == [kind |-> "result", triggered |-> FALSE,
                  confidence |-> [num |-> 0, den |-> 1], evidence |-> <<>>]
    IN  { [i \in 1..Len(EngineRules) |-> quiet] }

\* DetectionEngine.__init__ with one whitelisted address, empty alert
\* queue, the consumer task created, run() waiting for the shutdown event.
EInit ==
    /\ e_cooldowns = <<>>
    /\ e_stats = [windows_analyzed |-> 0, alerts_fired |-> 0, alerts_suppressed |-> 0,
                  alerts_cooldown |-> 0, alerts_whitelisted |-> 0]
    /\ e_whitelist = {str(<<2>>)}
    /\ e_last = NoCall
    /\ analyzed = <<>>
    /\ alert_queue = <<>>
    /\ alert_puts = <<>>
    /\ det_pc = "created"
    /\ det_fed = 0
    /\ shutdown_event = FALSE
    /\ run_pc = "running"

EIdle ==
    /\ e_cooldowns = <<>>
    /\ e_stats = [windows_analyzed |-> 0, alerts_fired |-> 0, alerts_suppressed |-> 0,
                  alerts_cooldown |-> 0, alerts_whitelisted |-> 0]
    /\ e_whitelist = {}
    /\ e_last = NoCall
    /\ analyzed = <<>>
    /\ alert_queue = <<>>
    /\ alert_puts = <<>>
    /\ det_pc = "idle"
    /\ det_fed = 0
    /\ shutdown_event = FALSE
    /\ run_pc = "idle"

\* The clocks of a running program.
ClkEpochInit ==
    /\ wall = EPOCH
    /\ mono = 0
    /\ ticks = 0

\* Time passes (half a cooldown or a whole one) and the aggregator emits a
\* window (Aggregator._emit) for the consumer.
WindowArrives ==
    /\ det_fed < MaxWindows
    /\ \E d \in {15, 30} :
        /\ wall' = wall + d
        /\ mono' = mono + d
        /\ LET r == safe_put(detection_queue, DetectionSize,
                             seal(reset(mono, wall), 1, <<>>, 0, 0, wall + d))
           IN  /\ detection_queue' = r.queue
               /\ METRICS' = inc(METRICS, "packets_dropped", r.dropped)
    /\ det_fed' = det_fed + 1
    /\ UNCHANGED <<e_cooldowns, e_stats, e_whitelist, e_last, analyzed, alert_queue,
                   alert_puts, det_pc, shutdown_event, run_pc, aRest, ticks, NotE>>

\* The consumer task's first step: it suspends in wait_for(get). Tasks
\* start in creation order, the aggregator first.
DetStart ==
    /\ det_pc = "created"
    /\ run_pc = "running"
    /\ agg_pc # "created"
    /\ det_pc' = IF shutdown_event THEN "exited" ELSE "wait"
    /\ UNCHANGED <<e_cooldowns, e_stats, e_whitelist, e_last, analyzed, alert_queue,
                   alert_puts, det_fed, shutdown_event, run_pc, aVars, clkVars,
                   METRICS, NotE>>

\* One turn of the consumer's loop with a window on the queue: dequeue it,
\* engine.analyze, safe_put of every alert dict (safe_put never suspends),
\* then the loop condition.
DetConsume(rules, outcome_seqs) ==
    /\ det_pc = "wait"
    /\ run_pc = "running"
    /\ detection_queue # <<>>
    /\ \E outcomes \in outcome_seqs :
        LET window == Head(detection_queue)
            a == analyze(e_cooldowns, e_stats, e_whitelist, rules, outcomes,
                         window, wall)
            context == [total_packets |-> window.total_packets,
                        unique_src_count |-> Cardinality(window.unique_src_ips),
                        unique_dst_ports_count |-> Cardinality(window.unique_dst_ports),
                        protocol_counts |-> window.protocol_counts]
            dicts == [i \in 1..Len(a.alerts) |->
                         a.alerts[i] @@ [window_context |-> context,
                                         window_seq |-> Len(analyzed) + 1]]
            em == emit_all(alert_queue, AlertSize, dicts)
        IN  /\ detection_queue' = Tail(detection_queue)
            /\ e_cooldowns' = a.cooldowns
            /\ e_stats' = a.stats
            /\ analyzed' = Append(analyzed, window)
            /\ alert_queue' = IF a.raised THEN alert_queue ELSE em.queue
            /\ alert_puts' = IF a.raised THEN alert_puts ELSE alert_puts \o dicts
            /\ METRICS' = IF a.raised THEN METRICS
                          ELSE inc(METRICS, "packets_dropped", em.dropped)
            /\ e_last' = [op |-> "analyze", outcomes |-> outcomes, now |-> wall,
                          cooldowns |-> e_cooldowns, stats |-> e_stats,
                          window |-> window, alerts |-> a.alerts, raised |-> a.raised,
                          queue_before |-> alert_queue]
            /\ det_pc' = IF a.raised THEN "crashed"
                         ELSE IF shutdown_event THEN "exited" ELSE "wait"
    /\ UNCHANGED <<e_whitelist, det_fed, shutdown_event, run_pc, aRest, clkVars, NotE>>

\* wait_for times out on an empty queue after the shutdown event was set:
\* the loop condition ends the task.
DetTimeout ==
    /\ det_pc = "wait"
    /\ run_pc = "running"
    /\ detection_queue = <<>>
    /\ shutdown_event
    /\ det_pc' = "exited"
    /\ UNCHANGED <<e_cooldowns, e_stats, e_whitelist, e_last, analyzed, alert_queue,
                   alert_puts, det_fed, shutdown_event, run_pc, aVars, clkVars,
                   METRICS, NotE>>

\* llm_consumer takes the oldest alert off the alert queue.
AlertGet ==
    /\ alert_queue # <<>>
    /\ alert_queue' = Tail(alert_queue)
    /\ UNCHANGED <<e_cooldowns, e_stats, e_whitelist, e_last, analyzed, alert_puts,
                   det_pc, det_fed, shutdown_event, run_pc, aVars, clkVars,
                   METRICS, NotE>>

\* SIGINT/SIGTERM: the handler schedules shutdown_event.set() on the loop.
Signal ==
    /\ run_pc = "running"
    /\ ~shutdown_event
    /\ shutdown_event' = TRUE
    /\ UNCHANGED <<e_cooldowns, e_stats, e_whitelist, e_last, analyzed, alert_queue,
                   alert_puts, det_pc, det_fed, run_pc, aVars, clkVars, METRICS, NotE>>

\* run() resumes from shutdown_event.wait(), cancels every task but the API
\* server in one step and suspends in gather.
RunCancel ==
    /\ run_pc = "running"
    /\ shutdown_event
    /\ run_pc' = "gather"
    /\ UNCHANGED <<e_cooldowns, e_stats, e_whitelist, e_last, analyzed, alert_queue,
                   alert_puts, det_pc, det_fed, shutdown_event, aVars, clkVars,
                   METRICS, NotE>>

\* The cancelled aggregator task's next step: CancelledError at its await.
RunAggCancel ==
    /\ run_pc = "gather"
    /\ (AggCancel \/ AggCancelUnstarted)

\* The cancelled aggregator task's next step when a packet was put on the
\* capture queue before the CancelledError reached its wait_for: the inner
\* get() finished first, and wait_for (asyncio of Python 3.11, the oldest
\* interpreter with the asyncio.timeout that llm/client.py uses) returns
\* the packet instead of raising.  The cancellation is lost, and run()'s
\* `while True` goes on with _process_one: it processes the packets that
\* come, and on an empty queue its turns are one-second timeouts that change
\* nothing, while main.run stays suspended in gather.
AggCancelSwallowed ==
    /\ run_pc = "gather"
    /\ \/ /\ agg_pc = "wait"
          /\ capture_queue # <<>>
          /\ agg_pc' = "wait_uncancelled"
          /\ UNCHANGED <<last_expiry_check, pending_expired, stats, detection_queue,
                         agg_fed, win_log, agg_last, clkVars, buckets, heap, flows,
                         new_flow_count, capture_queue, METRICS, NotA>>
       \/ /\ agg_pc = "wait_uncancelled"
          /\ AggProcess

\* The cancelled consumer task's next step: CancelledError at wait_for (the
\* except clause breaks out of the loop), or the task never starts.
DetCancel ==
    /\ run_pc = "gather"
    /\ det_pc \in {"created", "wait"}
    /\ det_pc' = "exited"
    /\ UNCHANGED <<e_cooldowns, e_stats, e_whitelist, e_last, analyzed, alert_queue,
                   alert_puts, det_fed, shutdown_event, run_pc, aVars, clkVars,
                   METRICS, NotE>>

\* gather returns once the cancelled tasks are done; run() stops the capture
\* thread, closes the database and returns.
RunStop ==
    /\ run_pc = "gather"
    /\ agg_pc \in {"cancelled", "idle"}
    /\ det_pc \in {"exited", "crashed"}
    /\ llm_pc \in {"exited", "idle"}
    /\ run_pc' = "stopped"
    /\ UNCHANGED <<e_cooldowns, e_stats, e_whitelist, e_last, analyzed, alert_queue,
                   alert_puts, det_pc, det_fed, shutdown_event, aVars, clkVars,
                   METRICS, NotE>>

\* The pipeline's tasks while run() waits for the shutdown event.
PipelineStep ==
    /\ run_pc = "running"
    /\ (AggStart \/ CaptureFeed \/ AggProcess \/ AggTimeout \/ AggTick)

(***************************************************************************)
(* engine/rules/port_scan.py: PortScanRule                                 *)
(***************************************************************************)
\* PortScanRule._severity_for
severity_for(confidence) ==
    IF ~Lt(confidence, [num |-> 9, den |-> 10]) THEN "CRITICAL"
    ELSE IF ~Lt(confidence, [num |-> 7, den |-> 10]) THEN "HIGH"
    ELSE IF ~Lt(confidence, [num |-> 4, den |-> 10]) THEN "MEDIUM"
    ELSE "LOW"

\* PortScanRule.analyze(window), the flow records read from the heap h.
\* _analyze computes _severity_for(confidence) into a local variable and
\* does not place it in the evidence.
port_scan(window, h) ==
    LET threshold == IF window.window_size_seconds <= 1 THEN 15
                     ELSE IF window.window_size_seconds <= 10 THEN 30 ELSE 50
        key == [i \in 1..Len(window.top_flows) |-> h[window.top_flows[i]].flow_key]
        ports(src) == {key[i].dst_port : i \in {k \in DOMAIN key : key[k].src_ip = src}}
        first(src) == CHOOSE i \in DOMAIN key :
                          key[i].src_ip = src /\ \A k \in 1..(i - 1) : key[k].src_ip # src
        srcs == {key[i].src_ip : i \in DOMAIN key}
        \* the first source, in dict order, with the most ports
        worst_src == CHOOSE src \in srcs :
                         \A o \in srcs :
                             \/ Cardinality(ports(o)) < Cardinality(ports(src))
                             \/ Cardinality(ports(o)) = Cardinality(ports(src))
                                /\ first(src) <= first(o)
        worst_count == Cardinality(ports(worst_src))
        sampled == [i \in 1..Min(10, worst_count) |->
                       CHOOSE p \in ports(worst_src) :
                           Cardinality({q \in ports(worst_src) : q < p}) = i - 1]
    IN  IF srcs = {} \/ worst_count < threshold
        THEN [kind |-> "result", triggered |-> FALSE,
              confidence |-> [num |-> 0, den |-> 1], evidence |-> <<>>]
        ELSE [kind |-> "result", triggered |-> TRUE,
              confidence |-> IF worst_count >= threshold * 3
                             THEN [num |-> 1, den |-> 1]
                             ELSE [num |-> worst_count, den |-> threshold * 3],
              evidence |-> [src_ip |-> worst_src,
                            unique_ports_contacted |-> worst_count,
                            sampled_ports |-> sampled,
                            window_size_seconds |-> window.window_size_seconds,
                            threshold |-> threshold]]

\* An engine whose only rule is PortScanRule.
PortScanRules == << [name |-> <<"port_scan">>, severity |-> "HIGH"] >>

\* A window built by hand, as the rule's unit tests build it: its top_flows
\* are n flows of one source, each to a destination port of its own.
HandBuiltWindowArrives ==
    /\ det_fed = 0
    /\ \E n \in 0..MaxScanFlows, size \in WindowSizes :
        LET w == [seal(reset(mono, wall), size, <<>>, 0, 0, wall)
                      EXCEPT !.top_flows = [i \in 1..n |-> Len(heap) + i]]
            r == safe_put(detection_queue, DetectionSize, w)
        IN  /\ heap' = heap \o [i \in 1..n |->
                           FlowRecord(FlowKey(<<1, 0>>, <<1, 9>>, 54321, i, "TCP"), wall, wall)]
            /\ detection_queue' = r.queue
            /\ METRICS' = inc(METRICS, "packets_dropped", r.dropped)
    /\ det_fed' = 1
    /\ UNCHANGED <<e_cooldowns, e_stats, e_whitelist, e_last, analyzed, alert_queue,
                   alert_puts, det_pc, shutdown_event, run_pc, aRest, clkVars,
                   qVars, kVars, cVars, bVars, gVars, lVars, sVars, flows, new_flow_count,
                   max_flows,
                   ttl_seconds, ft_calls, ft_last>>

\* The consumer's turn on a window with the engine's rule computed on it.
DetConsumePortScan ==
    DetConsume(PortScanRules, {<<port_scan(Head(detection_queue), heap)>>})

\* The event loop runs the safe_put of the next packet of the scan:
\* TCP SYN from 10.0.0.1 to 192.168.0.1, destination ports 1..ScanPorts in
\* turn, then one more packet to port 1.
ScanFeed ==
    /\ agg_pc = "wait"
    /\ agg_fed <= ScanPorts
    /\ LET shape == [src_ip |-> <<1, 0>>, dst_ip |-> <<1, 9>>, src_port |-> 54321,
                     dst_port |-> (agg_fed % ScanPorts) + 1, protocol |-> "TCP",
                     flags |-> "SYN", payload_size |-> 0]
           r == safe_put(capture_queue, CAPTURE_QUEUE_SIZE, PacketMeta(shape, wall))
       IN  /\ capture_queue' = r.queue
           /\ METRICS' = inc(METRICS, "packets_dropped", r.dropped)
    /\ agg_fed' = agg_fed + 1
    /\ UNCHANGED <<agg_pc, last_expiry_check, pending_expired, stats,
                   detection_queue, win_log, agg_last, clkVars, buckets,
                   heap, flows, new_flow_count, NotA>>

\* The scan lies inside one 1 s window: time passes, and the aggregator
\* task may be cancelled, only once all its packets have been processed.
AfterScan ==
    /\ agg_fed >= ScanPorts
    /\ stats.packets_processed >= ScanPorts
    /\ (AggTick \/ AggCancel)

(***************************************************************************)
(* The LLM gatekeeper (llm/gatekeeper.py) and the explanation cache it is  *)
(* handed (llm/cache.py).  Alert dicts carry rule_name, src_ip, severity   *)
(* and confidence; confidences are hundredths, [num |-> c, den |-> 100].   *)
(* time.time() is read from wall and never decreases.                      *)
(***************************************************************************)
GateMaxPerMinute == 2      \* max_calls_per_minute handed to the constructor
MaxGateCalls == 3          \* should_call calls in one run
GateMaxTicks == 2          \* clock advances in one run
MaxCachePuts == 1          \* cache.put calls in one run

GATE_WINDOW_SECONDS == 60
GATE_COOLDOWN_SECONDS == 30
CACHE_MAXSIZE == 200
MIN_CONFIDENCE == [num |-> 5, den |-> 10]
REQUIRED_SEVERITIES == {"MEDIUM", "HIGH", "CRITICAL"}
GateTickSteps == {30}

\* str.upper() on the severity texts that occur
upper(text) ==
    CASE text = "low" -> "LOW"
      [] text = "medium" -> "MEDIUM"
      [] text = "high" -> "HIGH"
      [] text = "critical" -> "CRITICAL"
      [] OTHER -> text

round1_floor(confidence) == confidence.num \div 10

\* round(x, 1) of a confidence given in hundredths, as tenths.  A value
\* ending in 5 goes where its nearest binary double lies (0.25 and 0.75 are
\* exact and go to the even tenth).
round1(confidence) ==
    LET c == confidence.num
    IN  IF c % 10 = 5
        THEN IF c \in {5, 45, 55, 65, 75} THEN (c \div 10) + 1 ELSE c \div 10
        ELSE (c + 5) \div 10

\* ExplanationCache._key: the digest of these four fields
cache_key(alert_dict) ==
    [rule |-> alert_dict.rule_name, src_ip |-> alert_dict.src_ip,
     severity |-> alert_dict.severity, conf_bucket |-> round1(alert_dict.confidence)]

Without(keys, key) == SelectSeq(keys, LAMBDA k : k # key)

cache_get_miss(cache, alert_dict) ==
    [value |-> <<>>, cache |-> [cache EXCEPT !.misses = @ + 1]]

cache_get_no_promote(cache, alert_dict) ==
    LET key == cache_key(alert_dict)
    IN  IF \E i \in DOMAIN cache.keys : cache.keys[i] = key
        THEN [value |-> <<cache.values[key]>>, cache |-> [cache EXCEPT !.hits = @ + 1]]
        ELSE [value |-> <<>>, cache |-> [cache EXCEPT !.misses = @ + 1]]

\* ExplanationCache.get: value is <<explanation>> on a hit and <<>> for None
cache_get(cache, alert_dict) ==
    LET key == cache_key(alert_dict)
    IN  IF \E i \in DOMAIN cache.keys : cache.keys[i] = key
        THEN [value |-> <<cache.values[key]>>,
              cache |-> [cache EXCEPT !.keys = Append(Without(cache.keys, key), key),
                                      !.hits = @ + 1]]
        ELSE [value |-> <<>>, cache |-> [cache EXCEPT !.misses = @ + 1]]

cache_put_discard(cache, alert_dict, explanation) == cache

\* ExplanationCache.put: keys is the OrderedDict's order, oldest first
cache_put(cache, alert_dict, explanation) ==
    LET key == cache_key(alert_dict)
        stored == Append(Without(cache.keys, key), key)
        kept == IF Len(stored) > cache.maxsize THEN Tail(stored) ELSE stored
    IN  [cache EXCEPT !.keys = kept,
                      !.values = [k \in {kept[i] : i \in DOMAIN kept} |->
                                     IF k = key THEN explanation ELSE cache.values[k]]]

gate_key_src_only(alert_dict) == alert_dict.src_ip

\* f"{src_ip}:{rule_name}"
gate_key(alert_dict) == alert_dict.src_ip \o <<":">> \o alert_dict.rule_name

recent_calls_all(call_times, now) == call_times

\* deque(t for t in self._call_times if now - t < 60.0)
recent_calls(call_times, now) ==
    SelectSeq(call_times, LAMBDA t : now - t < GATE_WINDOW_SECONDS)

\* LLMGatekeeper.should_call: the answer, and the gatekeeper's and the
\* cache's fields after the call.
should_call(call_times, cooldowns, max_calls_per_minute, cache, alert_dict, now) ==
    LET got == cache_get(cache, alert_dict)
        pruned == recent_calls(call_times, now)
        key == gate_key(alert_dict)
        last_called == IF key \in DOMAIN cooldowns THEN cooldowns[key] ELSE 0
        skip(reason, times) ==
            [approved |-> FALSE, reason |-> reason, call_times |-> times,
             cooldowns |-> cooldowns, cache |-> got.cache]
    IN  IF got.value # <<>> THEN skip("CACHE_HIT", call_times)
        ELSE IF upper(alert_dict.severity) \notin REQUIRED_SEVERITIES
        THEN skip("LOW_SEVERITY", call_times)
        ELSE IF Lt(alert_dict.confidence, MIN_CONFIDENCE)
        THEN skip("LOW_CONFIDENCE", call_times)
        ELSE IF Len(pruned) >= max_calls_per_minute THEN skip("RATE_LIMITED", pruned)
        ELSE IF now - last_called < GATE_COOLDOWN_SECONDS THEN skip("COOLDOWN", pruned)
        ELSE [approved |-> TRUE, reason |-> "APPROVED",
              call_times |-> Append(pruned, now),
              cooldowns |-> (key :> now) @@ cooldowns,
              cache |-> got.cache]

GateAlert(rule, src, severity, hundredths) ==
    [rule_name |-> <<rule>>, src_ip |-> str(<<src>>), severity |-> severity,
     confidence |-> [num |-> hundredths, den |-> 100]]

\* The alerts offered: three (src_ip, rule_name) pairs that pass the
\* filters, one of low severity and one of low confidence.
GateAlerts ==
    { GateAlert("port_scan", 1, "HIGH", 82),
      GateAlert("port_scan", 2, "high", 82),
      GateAlert("syn_flood", 1, "CRITICAL", 82),
      GateAlert("port_scan", 1, "LOW", 82),
      GateAlert("port_scan", 1, "HIGH", 30) }

GInit ==
    /\ g_call_times = <<>>
    /\ g_cooldowns = <<>>
    /\ g_max_calls = GateMaxPerMinute
    /\ g_cache = [keys |-> <<>>, values |-> <<>>, hits |-> 0, misses |-> 0,
                  maxsize |-> CACHE_MAXSIZE]
    /\ g_approved = <<>>
    /\ g_calls = 0
    /\ g_puts = 0
    /\ g_last = NoCall
    /\ cache_log = <<>>

GIdle ==
    /\ g_call_times = <<>>
    /\ g_cooldowns = <<>>
    /\ g_max_calls = 0
    /\ g_cache = [keys |-> <<>>, values |-> <<>>, hits |-> 0, misses |-> 0, maxsize |-> 0]
    /\ g_approved = <<>>
    /\ g_calls = 0
    /\ g_puts = 0
    /\ g_last = NoCall
    /\ cache_log = <<>>

NotGL == <<qVars, mVars, cVars, kVars, bVars, tVars, aVars, eVars, sVars>>
NotG == <<NotGL, lVars>>

\* time.time() moves on between two calls
GateTick ==
    /\ ticks < GateMaxTicks
    /\ \E d \in GateTickSteps :
          /\ wall' = wall + d
          /\ mono' = mono + d
    /\ ticks' = ticks + 1
    /\ UNCHANGED <<gVars, NotG>>

\* the cache's owner stores an explanation for an alert
CachePut ==
    /\ g_puts < MaxCachePuts
    /\ \E alert_dict \in GateAlerts :
          g_cache' = cache_put(g_cache, alert_dict,
                               [summary |-> <<"s">>, llm_confidence |-> "MEDIUM",
                                fallback_used |-> FALSE])
    /\ g_puts' = g_puts + 1
    /\ UNCHANGED <<g_call_times, g_cooldowns, g_max_calls, g_approved, g_calls, g_last,
                   cache_log, clkVars, NotG>>

\* one call of gatekeeper.should_call(alert_dict, cache)
GateCall ==
    /\ g_calls < MaxGateCalls
    /\ \E alert_dict \in GateAlerts :
          LET r == should_call(g_call_times, g_cooldowns, g_max_calls, g_cache,
                               alert_dict, wall)
          IN  /\ g_call_times' = r.call_times
              /\ g_cooldowns' = r.cooldowns
              /\ g_cache' = r.cache
              /\ g_approved' = IF r.approved
                               THEN Append(g_approved, [alert |-> alert_dict, time |-> wall])
                               ELSE g_approved
              /\ g_last' = [op |-> "should_call", alert |-> alert_dict, now |-> wall,
                            approved |-> r.approved, reason |-> r.reason,
                            cached |-> g_cache.keys, prior |-> g_approved]
    /\ g_calls' = g_calls + 1
    /\ UNCHANGED <<g_max_calls, g_puts, cache_log, clkVars, NotG>>

(***************************************************************************)
(* The LLM client (llm/client.py).  explain is called by one task at a     *)
(* time; what the model server answers to the availability probe and to    *)
(* the chat request is chosen by the environment.                          *)
(***************************************************************************)
MaxExplains == 2           \* explain calls in one run

MAX_CALLS_PER_MINUTE_DEFAULT == 10

\* what GET /api/tags can do: answer 200, answer another status, or fail
ProbeOutcomes == {"ok", "status", "error"}

ValidJson == "{summary, severity_reasoning, recommended_action}"

\* what POST /api/chat can do: run into the 8 s deadline, fail (HTTP error
\* status, network error, undecodable body), or deliver message.content
PostOutcomes ==
    { [status |-> "timeout", content |-> ""], [status |-> "error", content |-> ""] }
    \cup { [status |-> "ok", content |-> text] : text \in {"", "oops", ValidJson} }

\* fallbacks.get_fallback: the rule's entry of RULE_FALLBACKS, else _DEFAULT
get_fallback(rule_name) ==
    LET RULE_FALLBACKS == { <<"port_scan">>, <<"syn_flood">>, <<"brute_force">>,
                            <<"dns_tunneling">>, <<"beaconing">> }
    IN  [summary |-> IF rule_name \in RULE_FALLBACKS THEN rule_name ELSE <<"default">>,
         llm_confidence |-> "LOW", fallback_used |-> TRUE]

validate_accept_all(raw_text) ==
    << [summary |-> <<raw_text>>, llm_confidence |-> "UNCERTAIN",
        fallback_used |-> FALSE] >>

\* validator.validate_llm_response on the texts that occur: <<>> for None
validate_llm_response(raw_text) ==
    IF raw_text = ValidJson
    THEN << [summary |-> <<raw_text>>, llm_confidence |-> "UNCERTAIN",
             fallback_used |-> FALSE] >>
    ELSE <<>>

\* LLMClient._is_available
is_available(available, force, probe) ==
    IF available = "True" /\ ~force
    THEN [result |-> TRUE, available |-> available, probed |-> FALSE]
    ELSE [result |-> probe = "ok",
          available |-> IF probe = "ok" THEN "True"
                        ELSE IF probe = "error" THEN "False" ELSE available,
          probed |-> TRUE]

\* LLMClient._call_ollama: raw is <<>> for None
call_ollama(available, client_stats, post) ==
    CASE post.status = "timeout" ->
            [raw |-> <<>>, available |-> available,
             stats |-> [client_stats EXCEPT !.timeouts = @ + 1]]
      [] post.status = "error" ->
            [raw |-> <<>>, available |-> "False", stats |-> client_stats]
      [] OTHER ->
            [raw |-> IF post.content # "" THEN <<post.content>> ELSE <<>>,
             available |-> available, stats |-> client_stats]

\* LLMClient.explain: what it returns (<<>> for None) and every field of the
\* client, its gatekeeper and its cache after the call
explain(call_times, cooldowns, max_calls, cache, available, client_stats, alert_dict, now, probe, post) ==
    LET gate == should_call(call_times, cooldowns, max_calls, cache, alert_dict, now)
        fallback == get_fallback(alert_dict.rule_name)
        out(returned, cache_after, available_after, stats_after, probed, posted) ==
            [returned |-> returned, reason |-> gate.reason,
             call_times |-> gate.call_times, cooldowns |-> gate.cooldowns,
             cache |-> cache_after, available |-> available_after,
             stats |-> stats_after, probed |-> probed, posted |-> posted]
        bump(st, field) == [st EXCEPT ![field] = @ + 1]
    IN  IF ~gate.approved
        THEN IF gate.reason = "CACHE_HIT"
             THEN LET cached == cache_get(gate.cache, alert_dict)
                  IN  out(cached.value, cached.cache, available,
                          bump(client_stats, "cache_hits"), FALSE, FALSE)
             ELSE out(<<fallback>>, gate.cache, available,
                      bump(client_stats, "fallbacks_used"), FALSE, FALSE)
        ELSE
        LET avail == is_available(available, FALSE, probe)
        IN  IF ~avail.result
            THEN out(<<fallback>>, gate.cache, avail.available,
                     bump(client_stats, "fallbacks_used"), avail.probed, FALSE)
            ELSE
            LET called == call_ollama(avail.available, bump(client_stats, "calls_made"),
                                      post)
                explanation == IF called.raw = <<>> THEN <<>>
                               ELSE validate_llm_response(called.raw[1])
            IN  IF called.raw = <<>>
                THEN out(<<fallback>>, gate.cache, called.available,
                         bump(called.stats, "fallbacks_used"), avail.probed, TRUE)
                ELSE IF explanation = <<>>
                THEN out(<<fallback>>, gate.cache, called.available,
                         bump(bump(called.stats, "parse_errors"), "fallbacks_used"),
                         avail.probed, TRUE)
                ELSE out(explanation,
                         cache_put(gate.cache, alert_dict, explanation[1]),
                         called.available, called.stats, avail.probed, TRUE)

\* The alerts enriched: one that passes the gatekeeper's filters and one of
\* low confidence.
ClientAlerts ==
    { GateAlert("port_scan", 1, "HIGH", 82),
      GateAlert("port_scan", 1, "HIGH", 30) }

\* LLMClient.__init__
LInit ==
    /\ llm_available = "None"
    /\ llm_stats = [calls_made |-> 0, cache_hits |-> 0, fallbacks_used |-> 0,
                    timeouts |-> 0, parse_errors |-> 0]
    /\ llm_log = <<>>
    /\ llm_pc = "idle"
    /\ llm_taken = <<>>
    /\ ws_alerts = <<>>

\* one call of llm_client.explain(alert_dict, window_context)
Explain ==
    /\ Len(llm_log) < MaxExplains
    /\ \E alert_dict \in ClientAlerts, probe \in ProbeOutcomes, post \in PostOutcomes :
          LET r == explain(g_call_times, g_cooldowns, g_max_calls, g_cache,
                           llm_available, llm_stats, alert_dict, wall, probe, post)
          IN  /\ g_call_times' = r.call_times
              /\ g_cooldowns' = r.cooldowns
              /\ g_cache' = r.cache
              /\ llm_available' = r.available
              /\ llm_stats' = r.stats
              /\ g_approved' = IF r.reason = "APPROVED"
                               THEN Append(g_approved, [alert |-> alert_dict, time |-> wall])
                               ELSE g_approved
              /\ llm_log' = Append(llm_log,
                    [alert |-> alert_dict, now |-> wall, reason |-> r.reason,
                     returned |-> r.returned,
                     probe |-> IF r.probed THEN probe ELSE "none",
                     post |-> IF r.posted THEN post
                              ELSE [status |-> "none", content |-> ""],
                     available_before |-> llm_available,
                     available_after |-> r.available,
                     cache_before |-> [keys |-> g_cache.keys, values |-> g_cache.values],
                     cache_after |-> [keys |-> r.cache.keys, values |-> r.cache.values]])
    /\ g_calls' = g_calls + 1
    /\ UNCHANGED <<g_max_calls, g_puts, g_last, cache_log, llm_pc, llm_taken, ws_alerts,
                   clkVars, NotGL>>

\* llm_client.health_check(), made at start-up and by the status route
HealthCheck ==
    /\ \E probe \in ProbeOutcomes :
          llm_available' = is_available(llm_available, TRUE, probe).available
    /\ UNCHANGED <<gVars, llm_stats, llm_log, llm_pc, llm_taken, ws_alerts, clkVars, NotGL>>

(***************************************************************************)
(* The explanation cache used on its own (llm/cache.py), with a small      *)
(* capacity, by alerts that differ only in confidence.                     *)
(***************************************************************************)
CacheSize == 2             \* maxsize handed to the constructor
MaxCacheOps == 4           \* get and put calls in one run

CacheConfidences == {72, 82, 84, 85, 86, 94}

CacheAlerts == {GateAlert("port_scan", 1, "HIGH", c) : c \in CacheConfidences}

KeySet(cache) == {cache.keys[i] : i \in DOMAIN cache.keys}

CacheGet ==
    /\ Len(cache_log) < MaxCacheOps
    /\ \E alert_dict \in CacheAlerts :
          LET r == cache_get(g_cache, alert_dict)
          IN  /\ g_cache' = r.cache
              /\ cache_log' = Append(cache_log,
                    [op |-> "get", alert |-> alert_dict, hit |-> r.value # <<>>,
                     before |-> g_cache.keys, evicted |-> {}])
    /\ UNCHANGED <<g_call_times, g_cooldowns, g_max_calls, g_approved, g_calls, g_puts,
                   g_last, clkVars, NotG>>

CachePutCall ==
    /\ Len(cache_log) < MaxCacheOps
    /\ \E alert_dict \in CacheAlerts :
          LET after == cache_put(g_cache, alert_dict,
                                 [summary |-> <<"s">>, llm_confidence |-> "MEDIUM",
                                  fallback_used |-> FALSE])
          IN  /\ g_cache' = after
              /\ cache_log' = Append(cache_log,
                    [op |-> "put", alert |-> alert_dict, hit |-> FALSE,
                     before |-> g_cache.keys,
                     evicted |-> (KeySet(g_cache) \cup {cache_key(alert_dict)})
                                    \ KeySet(after)])
    /\ UNCHANGED <<g_call_times, g_cooldowns, g_max_calls, g_approved, g_calls, g_puts,
                   g_last, clkVars, NotG>>


(***************************************************************************)
(* Storage (storage/database.py, repository.py, migrations.py).  A write   *)
(* either executes or fails with an sqlite3 error at its first statement.  *)
(***************************************************************************)
MaxStoreCalls == 3         \* repository calls in one run
MaxApplies == 2            \* apply_migrations calls in one run
SnapshotMaxRows == 2       \* settings.STATS_SNAPSHOT_MAX_ROWS
MaxVersion == 3            \* highest migration version

CURRENT_SCHEMA_VERSION == 1

\* Alerts as the LLM consumer saves them: two ids, and for each id two dicts
\* that differ in another column.
StoreAlerts ==
    { [alert_id |-> id, rule_name |-> rule, src_ip |-> str(<<1>>)] :
         id \in {"id-1", "id-2"}, rule \in {<<"port_scan">>, <<"syn_flood">>} }

save_alert_replace(alerts, alert_dict, outcome) ==
    IF outcome = "fail" THEN alerts
    ELSE (alert_dict.alert_id :>
             [rule_name |-> alert_dict.rule_name, src_ip |-> alert_dict.src_ip,
              llm_explanation |-> <<>>])
         @@ alerts

\* AlertRepository.save_alert: INSERT OR IGNORE, then commit
save_alert(alerts, alert_dict, outcome) ==
    IF outcome = "fail" \/ alert_dict.alert_id \in DOMAIN alerts THEN alerts
    ELSE (alert_dict.alert_id :>
             [rule_name |-> alert_dict.rule_name, src_ip |-> alert_dict.src_ip,
              llm_explanation |-> <<>>])
         @@ alerts

\* AlertRepository.save_stats_snapshot: the tables the call can leave.
\* ORDER BY timestamp DESC LIMIT n keeps n rows of highest timestamp; which
\* of several rows with the same timestamp it keeps is not specified.
save_stats_snapshot(rows, seq, timestamp, max_rows, outcome) ==
    IF outcome = "fail" THEN {rows}
    ELSE LET inserted == Append(rows, [id |-> seq + 1, timestamp |-> timestamp])
             ids == {inserted[i].id : i \in DOMAIN inserted}
             stamp(id) == inserted[CHOOSE i \in DOMAIN inserted : inserted[i].id = id].timestamp
             keep == Min(max_rows, Len(inserted))
         IN  { SelectSeq(inserted, LAMBDA row : row.id \in kept) :
                  kept \in { K \in SUBSET ids :
                                /\ Cardinality(K) = keep
                                /\ \A k \in K : \A o \in ids \ K : stamp(k) >= stamp(o) } }

current_version_zero(versions) == 0

\* SELECT MAX(version) FROM schema_version, 0 for an empty table
current_version(versions) ==
    IF versions = {} THEN 0 ELSE CHOOSE v \in versions : \A w \in versions : w <= v

\* What a migration function can do with the cursor: "ok" runs its ALTER
\* TABLE; "raise" raises before changing anything; "ddl_raise" runs its ALTER
\* TABLE and then raises; "dml_raise" changes rows and then raises.  sqlite3
\* opens a transaction before INSERT, UPDATE, DELETE and REPLACE only, so an
\* ALTER TABLE outside a transaction is committed at once and rollback() does
\* not undo it.
MigrationBodies == {"ok", "raise", "ddl_raise", "dml_raise"}

\* _MIGRATIONS: versions 2.. in ascending order
MigrationLists ==
    { [i \in DOMAIN bodies |-> [version |-> i + 1, body |-> bodies[i]]] :
         bodies \in UNION { [1..n -> MigrationBodies] : n \in 1..(MaxVersion - 1) } }

\* migrations.apply_migrations: the pending migrations run in list order
\* until one raises
apply_migrations(versions, schema, migrations) ==
    LET current == current_version(versions)
        pending == SelectSeq(migrations, LAMBDA m : m.version > current)
        RECURSIVE run_migrations(_, _)
        run_migrations(todo, acc) ==
            IF todo = <<>> \/ acc.raised THEN acc
            ELSE LET m == Head(todo)
                     ran == [acc EXCEPT !.ran = Append(@, m.version)]
                 IN  run_migrations(Tail(todo),
                        CASE m.body = "ok" ->
                                [ran EXCEPT !.schema = @ \cup {m.version},
                                            !.versions = @ \cup {m.version}]
                          [] m.body = "ddl_raise" ->
                                [ran EXCEPT !.schema = @ \cup {m.version}, !.raised = TRUE]
                          [] OTHER -> [ran EXCEPT !.raised = TRUE])
    IN  run_migrations(pending, [versions |-> versions, schema |-> schema,
                                 ran |-> <<>>, raised |-> FALSE])

\* Database() and init_schema(): empty tables, version 1 recorded
SInit ==
    /\ db_alerts = <<>>
    /\ db_snapshots = <<>>
    /\ db_seq = 0
    /\ db_versions = {CURRENT_SCHEMA_VERSION}
    /\ db_schema = {}
    /\ db_log = <<>>

\* The three tables are independent of each other: a run works on one of them.
OnlyOps(ops) == \A i \in DOMAIN db_log : db_log[i].op \in ops

NotS == <<qVars, mVars, cVars, kVars, clkVars, bVars, tVars, aVars, eVars, gVars, lVars>>

SaveAlert ==
    /\ Len(db_log) < MaxStoreCalls
    /\ OnlyOps({"save_alert", "update_alert_llm"})
    /\ \E alert_dict \in StoreAlerts, outcome \in {"ok", "fail"} :
          /\ db_alerts' = save_alert(db_alerts, alert_dict, outcome)
          /\ db_log' = Append(db_log,
                [op |-> "save_alert", alert |-> alert_dict, outcome |-> outcome,
                 before |-> db_alerts])
    /\ UNCHANGED <<db_snapshots, db_seq, db_versions, db_schema, NotS>>

\* AlertRepository.update_alert_llm
UpdateAlertLlm ==
    /\ Len(db_log) < MaxStoreCalls
    /\ OnlyOps({"save_alert", "update_alert_llm"})
    /\ \E id \in {"id-1", "id-2"}, outcome \in {"ok", "fail"} :
          /\ db_alerts' = IF outcome = "ok" /\ id \in DOMAIN db_alerts
                          THEN [db_alerts EXCEPT ![id].llm_explanation =
                                   <<get_fallback(db_alerts[id].rule_name)>>]
                          ELSE db_alerts
          /\ db_log' = Append(db_log,
                [op |-> "update_alert_llm", alert_id |-> id, outcome |-> outcome])
    /\ UNCHANGED <<db_snapshots, db_seq, db_versions, db_schema, NotS>>

SaveStatsSnapshot ==
    /\ Len(db_log) < MaxStoreCalls
    /\ OnlyOps({"save_stats_snapshot"})
    /\ \E timestamp \in {10, 20}, outcome \in {"ok", "fail"} :
          /\ db_snapshots' \in save_stats_snapshot(db_snapshots, db_seq, timestamp,
                                                   SnapshotMaxRows, outcome)
          /\ db_seq' = IF outcome = "ok" THEN db_seq + 1 ELSE db_seq
          /\ db_log' = Append(db_log,
                [op |-> "save_stats_snapshot", timestamp |-> timestamp,
                 outcome |-> outcome])
    /\ UNCHANGED <<db_alerts, db_versions, db_schema, NotS>>

\* one start-up's apply_migrations(db) with the migration list of that build
ApplyMigrations ==
    /\ Len(db_log) < MaxApplies
    /\ OnlyOps({"apply_migrations"})
    /\ \E migrations \in MigrationLists :
          LET r == apply_migrations(db_versions, db_schema, migrations)
          IN  /\ db_versions' = r.versions
              /\ db_schema' = r.schema
              /\ db_log' = Append(db_log,
                    [op |-> "apply_migrations", migrations |-> migrations,
                     versions_before |-> db_versions, schema_before |-> db_schema,
                     ran |-> r.ran, raised |-> r.raised])
    /\ UNCHANGED <<db_alerts, db_snapshots, db_seq, NotS>>

(***************************************************************************)
(* main.py: llm_consumer.  The task takes an alert dict off the alert      *)
(* queue, awaits its explanation, saves the alert, attaches the            *)
(* explanation, broadcasts on the "alerts" channel and tests the shutdown  *)
(* event.  Alert.alert_id is a fresh uuid4: the model names an alert by    *)
(* the window it came from and its rule, which is as unique.               *)
(***************************************************************************)
alert_id(alert_dict) == <<alert_dict.window_seq, alert_dict.rule_name>>

\* What the rules do on a window here: no rule triggers, or the first one
\* does, on source 1.
AlertOutcomes ==
    LET result(t) == [kind |-> "result", triggered |-> t,
                      confidence |-> [num |-> 80, den |-> 100],
                      evidence |-> [src_ip |-> <<1>>]]
    IN  { <<result(FALSE), result(FALSE)>>, <<result(TRUE), result(FALSE)>> }

\* What llm_client.explain or get_fallback hands back for an alert.
Explanations(alert_dict) ==
    { get_fallback(alert_dict.rule_name), validate_llm_response(ValidJson)[1] }

NotLlm == <<qVars, mVars, kVars, cVars, bVars, tVars, gVars, aVars, clkVars, llm_available,
            llm_stats, llm_log, db_snapshots, db_seq, db_versions, db_schema, e_cooldowns,
            e_stats, e_whitelist, e_last, analyzed, alert_puts, det_pc, det_fed,
            shutdown_event, run_pc>>

\* The task's first step: the loop condition, then it suspends in
\* wait_for(alert_queue.get).  Tasks start in creation order.
LlmStart ==
    /\ llm_pc = "created"
    /\ run_pc = "running"
    /\ det_pc # "created"
    /\ llm_pc' = IF shutdown_event THEN "exited" ELSE "wait"
    /\ UNCHANGED <<alert_queue, llm_taken, ws_alerts, db_alerts, db_log, NotLlm>>

\* wait_for returns the oldest alert and the task suspends in
\* llm_client.explain.  After run() cancelled the tasks this is the step of
\* a wait_for that was handed the alert before the CancelledError reached
\* it: it returns the alert and the cancellation is lost.
LlmTake ==
    /\ llm_pc = "wait"
    /\ run_pc \in {"running", "gather"}
    /\ alert_queue # <<>>
    /\ alert_queue' = Tail(alert_queue)
    /\ llm_taken' = Append(llm_taken, Head(alert_queue))
    /\ llm_pc' = IF run_pc = "running" THEN "explain" ELSE "explain_uncancelled"
    /\ UNCHANGED <<ws_alerts, db_alerts, db_log, NotLlm>>

\* An llm_consumer whose storage calls let a failed write propagate: the
\* exception leaves the loop before the broadcast.
LlmFinishUnguarded ==
    /\ llm_pc = "explain"
    /\ run_pc = "running"
    /\ \E saved \in {"ok", "fail"} :
          LET alert_dict == llm_taken[Len(llm_taken)]
              row == [alert_id |-> alert_id(alert_dict), rule_name |-> alert_dict.rule_name,
                      src_ip |-> alert_dict.src_ip]
          IN  /\ db_alerts' = save_alert(db_alerts, row, saved)
              /\ db_log' = Append(db_log, [op |-> "save_alert", alert |-> row,
                                           outcome |-> saved, before |-> db_alerts])
              /\ ws_alerts' = IF saved = "fail" THEN ws_alerts
                              ELSE Append(ws_alerts,
                                      [alert |-> alert_dict,
                                       llm_explanation |-> get_fallback(alert_dict.rule_name)])
              /\ llm_pc' = IF saved = "fail" \/ shutdown_event THEN "exited" ELSE "wait"
    /\ UNCHANGED <<alert_queue, llm_taken, NotLlm>>

\* The explanation arrives: repo.save_alert, repo.update_alert_llm (each
\* logs and swallows a failed write), ws_manager.broadcast, then the loop
\* condition.
LlmFinish ==
    /\ \/ llm_pc = "explain" /\ run_pc = "running"
       \/ llm_pc = "explain_uncancelled"
    /\ \E saved \in {"ok", "fail"}, updated \in {"ok", "fail"} :
       \E explanation \in Explanations(llm_taken[Len(llm_taken)]) :
          LET alert_dict == llm_taken[Len(llm_taken)]
              id == alert_id(alert_dict)
              row == [alert_id |-> id, rule_name |-> alert_dict.rule_name,
                      src_ip |-> alert_dict.src_ip]
              inserted == save_alert(db_alerts, row, saved)
          IN  /\ db_alerts' = IF updated = "ok" /\ id \in DOMAIN inserted
                              THEN [inserted EXCEPT ![id].llm_explanation = <<explanation>>]
                              ELSE inserted
              /\ db_log' = db_log \o
                    << [op |-> "save_alert", alert |-> row, outcome |-> saved,
                        before |-> db_alerts],
                       [op |-> "update_alert_llm", alert_id |-> id, outcome |-> updated] >>
              /\ ws_alerts' = Append(ws_alerts, [alert |-> alert_dict,
                                                 llm_explanation |-> explanation])
    /\ llm_pc' = IF shutdown_event THEN "exited" ELSE "wait"
    /\ UNCHANGED <<alert_queue, llm_taken, NotLlm>>

\* wait_for times out on an empty queue after the shutdown event was set:
\* the loop condition ends the task.
LlmTimeout ==
    /\ llm_pc = "wait"
    /\ run_pc = "running"
    /\ alert_queue = <<>>
    /\ shutdown_event
    /\ llm_pc' = "exited"
    /\ UNCHANGED <<alert_queue, llm_taken, ws_alerts, db_alerts, db_log, NotLlm>>

\* The cancelled task's next step: CancelledError at wait_for or inside
\* explain (the except clause breaks out of the loop), or the task never
\* starts.
LlmCancel ==
    /\ run_pc = "gather"
    /\ llm_pc \in {"created", "wait", "explain"}
    /\ llm_pc' = "exited"
    /\ UNCHANGED <<alert_queue, llm_taken, ws_alerts, db_alerts, db_log, NotLlm>>

(***************************************************************************)
(* Specifications                                                          *)
(***************************************************************************)
InitQueue == QInit /\ MInit /\ CIdle /\ KIdle /\ TIdle /\ ClkInit /\ BIdle /\ AIdle /\ EIdle /\ GIdle
    /\ LInit /\ SInit

NextQueue == SafePutCall

SpecQueue == InitQueue /\ [][NextQueue]_vars

InitKey == QIdle /\ MInit /\ CIdle /\ KInit /\ TIdle /\ ClkInit /\ BIdle /\ AIdle /\ EIdle /\ GIdle
    /\ LInit /\ SInit

NextKey == ApplyMakeFlowKey

SpecKey == InitKey /\ [][NextKey]_vars

InitCapture == QIdle /\ MInit /\ CInit /\ KIdle /\ TIdle /\ ClkInit /\ BIdle /\ AIdle /\ EIdle /\ GIdle
    /\ LInit /\ SInit

NextCapture ==
    \/ SnifferDelivers
    \/ PacketCallback
    \/ LoopRunSafePut
    \/ ConsumerGet

SpecCapture == InitCapture /\ [][NextCapture]_vars

InitTracker == QIdle /\ MInit /\ CIdle /\ KIdle /\ TInit /\ ClkInit /\ BIdle /\ AIdle /\ EIdle /\ GIdle
    /\ LInit /\ SInit

NextTracker ==
    \/ TrackerUpdate
    \/ TrackerExpire
    \/ TrackerTick

SpecTracker == InitTracker /\ [][NextTracker]_vars

InitBucket == QIdle /\ MInit /\ CIdle /\ KIdle /\ TIdle /\ ClkInit /\ BInit /\ AIdle /\ EIdle /\ GIdle
    /\ LInit /\ SInit

NextBucket ==
    \/ Tick
    \/ BucketAdd
    \/ BucketFlush

SpecBucket == InitBucket /\ [][NextBucket]_vars

InitAgg == QIdle /\ MInit /\ CIdle /\ KIdle /\ ClkInit /\ AInit /\ EIdle /\ GIdle
    /\ LInit /\ SInit

NextAgg ==
    \/ AggTick
    \/ CaptureFeed
    \/ AggStart
    \/ AggTimeout
    \/ AggProcess
    \/ AggCancel
    \/ AggCancelUnstarted
    \/ DetectionGet

SpecAgg == InitAgg /\ [][NextAgg]_vars

InitShutdown == QIdle /\ MInit /\ CIdle /\ KIdle /\ ClkInit /\ AInit /\ EInit /\ GIdle
    /\ LInit /\ SInit

NextShutdown ==
    \/ PipelineStep
    \/ DetStart
    \/ DetConsume(EngineRules, QuietOutcomes)
    \/ DetTimeout
    \/ Signal
    \/ RunCancel
    \/ RunAggCancel
    \/ AggCancelSwallowed
    \/ DetCancel
    \/ RunStop

SpecShutdown == InitShutdown /\ [][NextShutdown]_vars

\* The event loop runs every task that is ready, and run() itself; only the
\* signal is up to the environment.  Every step uses up a bounded supply
\* (packets, ticks, task positions), so a run ends where no task is ready.
SpecShutdownFair ==
    /\ SpecShutdown
    /\ WF_vars(\/ PipelineStep \/ DetStart \/ DetConsume(EngineRules, QuietOutcomes)
               \/ DetTimeout \/ RunCancel \/ RunAggCancel \/ AggCancelSwallowed
               \/ DetCancel \/ RunStop)

InitEnrich ==
    /\ QIdle /\ MInit /\ CIdle /\ KIdle /\ TIdle /\ BIdle /\ ClkEpochInit /\ AIdle /\ EInit
    /\ GIdle /\ SInit
    /\ llm_available = "None"
    /\ llm_stats = [calls_made |-> 0, cache_hits |-> 0, fallbacks_used |-> 0,
                    timeouts |-> 0, parse_errors |-> 0]
    /\ llm_log = <<>>
    /\ llm_pc = "created"
    /\ llm_taken = <<>>
    /\ ws_alerts = <<>>

NextEnrich ==
    \/ WindowArrives
    \/ DetStart
    \/ DetConsume(EngineRules, AlertOutcomes)
    \/ DetTimeout
    \/ LlmStart
    \/ LlmTake
    \/ LlmFinish
    \/ LlmTimeout
    \/ Signal
    \/ RunCancel
    \/ DetCancel
    \/ LlmCancel
    \/ RunStop

SpecEnrich == InitEnrich /\ [][NextEnrich]_vars

InitDetect == QIdle /\ MInit /\ CIdle /\ KIdle /\ TIdle /\ BIdle /\ ClkEpochInit /\ AIdle /\ EInit /\ GIdle
    /\ LInit /\ SInit

NextDetect ==
    \/ WindowArrives
    \/ DetStart
    \/ DetConsume(EngineRules, DetectOutcomes)
    \/ AlertGet

SpecDetect == InitDetect /\ [][NextDetect]_vars

InitPortScan == QIdle /\ MInit /\ CIdle /\ KIdle /\ TIdle /\ BIdle /\ ClkEpochInit /\ AIdle /\ EInit /\ GIdle
    /\ LInit /\ SInit

NextPortScan ==
    \/ HandBuiltWindowArrives
    \/ DetStart
    \/ DetConsumePortScan
    \/ AlertGet

SpecPortScan == InitPortScan /\ [][NextPortScan]_vars

InitScan == QIdle /\ MInit /\ CIdle /\ KIdle /\ ClkInit /\ AInit /\ EInit /\ GIdle
    /\ LInit /\ SInit

NextScan ==
    \/ ScanFeed
    \/ AggStart
    \/ AggProcess
    \/ AfterScan
    \/ DetStart
    \/ DetConsumePortScan

SpecScan == InitScan /\ [][NextScan]_vars

InitGate == QIdle /\ MInit /\ CIdle /\ KIdle /\ TIdle /\ BIdle /\ ClkEpochInit /\ AIdle /\ EIdle /\ GInit
    /\ LInit /\ SInit

NextGate ==
    \/ GateCall
    \/ CachePut
    \/ GateTick

SpecGate == InitGate /\ [][NextGate]_vars

InitCache ==
    /\ QIdle /\ MInit /\ CIdle /\ KIdle /\ TIdle /\ BIdle /\ ClkEpochInit /\ AIdle /\ EIdle
    /\ LInit /\ SInit
    /\ g_call_times = <<>>
    /\ g_cooldowns = <<>>
    /\ g_max_calls = 0
    /\ g_cache = [keys |-> <<>>, values |-> <<>>, hits |-> 0, misses |-> 0,
                  maxsize |-> CacheSize]
    /\ g_approved = <<>>
    /\ g_calls = 0
    /\ g_puts = 0
    /\ g_last = NoCall
    /\ cache_log = <<>>

NextCache ==
    \/ CacheGet
    \/ CachePutCall

SpecCache == InitCache /\ [][NextCache]_vars

\* LLMClient.__init__ with the gatekeeper and the cache the client builds for
\* itself
InitClient ==
    /\ QIdle /\ MInit /\ CIdle /\ KIdle /\ TIdle /\ BIdle /\ ClkEpochInit /\ AIdle /\ EIdle
    /\ g_call_times = <<>>
    /\ g_cooldowns = <<>>
    /\ g_max_calls = MAX_CALLS_PER_MINUTE_DEFAULT
    /\ g_cache = [keys |-> <<>>, values |-> <<>>, hits |-> 0, misses |-> 0,
                  maxsize |-> CACHE_MAXSIZE]
    /\ g_approved = <<>>
    /\ g_calls = 0
    /\ g_puts = 0
    /\ g_last = NoCall
    /\ cache_log = <<>>
    /\ LInit
    /\ SInit

NextClient ==
    \/ Explain
    \/ HealthCheck
    \/ GateTick

SpecClient == InitClient /\ [][NextClient]_vars

InitStore ==
    /\ QIdle /\ MInit /\ CIdle /\ KIdle /\ TIdle /\ BIdle /\ ClkEpochInit /\ AIdle /\ EIdle
    /\ GIdle /\ LInit /\ SInit

NextStore ==
    \/ SaveAlert
    \/ UpdateAlertLlm
    \/ SaveStatsSnapshot
    \/ ApplyMigrations

SpecStore == InitStore /\ [][NextStore]_vars

(***************************************************************************)
(* Claims                                                                  *)
(***************************************************************************)
\* The last n items of s, in order.
LastN(s, n) == SubSeq(s, Len(s) - n + 1, Len(s))

\* C1: after N consecutive safe_put calls on an initially empty queue of
\* capacity C >= 1 with no consumer, every call returned True (none refused
\* or lost its item), the queue holds at most C items, the drop counter is
\* N - C when N > C (0 otherwise), and the queue holds exactly the last
\* min(N, C) items put, in put order.
C1_RingBuffer ==
    LET N == Len(tq_puts)
        C == tq_maxsize
    IN  /\ \A i \in 1..Len(tq_rets) : tq_rets[i] = TRUE
        /\ Len(tq_rets) = N
        /\ Len(tq) <= C
        /\ METRICS.packets_dropped = IF N > C THEN N - C ELSE 0
        /\ tq = LastN(tq_puts, Min(N, C))

\* C1 witness: more puts than capacity have happened and drops were counted.
C1_Witness ==
    /\ Len(tq_puts) > tq_maxsize + 1
    /\ tq_maxsize >= 2
    /\ METRICS.packets_dropped >= 2
    /\ tq_puts[Len(tq_puts)] # tq_puts[Len(tq_puts) - tq_maxsize]

\* C2: the capture thread never waits on the consumer: whatever the state of
\* the capture queue (empty, partly full, full) and of the event loop, the
\* packet callback can run to its return, and a scheduled safe_put can run
\* to completion (it does not suspend on a full queue).
C2_CaptureNeverWaits ==
    /\ (cap_pc = "callback" => ENABLED PacketCallback)
    /\ (loop_ready # <<>> => ENABLED LoopRunSafePut)

\* C2 witness: a frame is in the callback while the capture queue is full
\* and earlier enqueues are still waiting for the loop; a drop has happened.
C2_Witness ==
    /\ cap_pc = "callback"
    /\ cap_pkt.kind = "ip"
    /\ full(capture_queue, CaptureSize)
    /\ loop_ready # <<>>
    /\ METRICS.packets_dropped > 0

\* C3: a packet and the packet with source and destination swapped get the
\* same flow key (also when both ports are equal), and normalising a
\* normalised key again gives the identical key.
C3_KeySymmetricIdempotent ==
    k_pc = "done" =>
        /\ k_out.fwd = k_out.rev
        /\ k_out.again = k_out.fwd

\* C3 witness: equal ports, different IPs given in descending order.
C3_Witness ==
    /\ k_pc = "done"
    /\ k_in.src_port = k_in.dst_port
    /\ k_in.src_ip # k_in.dst_ip
    /\ ~StrLE(k_in.src_ip, k_in.dst_ip)
    /\ k_out.fwd.src_ip = k_in.dst_ip

\* Records currently in the tracker's map.
InMap(oid) == oid \in DictOids(flows)

\* C6: every flow record (each has been updated at least once) has
\* first_seen <= last_seen, byte_count >= 0 and packet_count >= 1, whatever
\* the packets' timestamps.
C6_RecordInvariant ==
    \A oid \in 1..Len(heap) :
        /\ heap[oid].first_seen <= heap[oid].last_seen
        /\ heap[oid].byte_count >= 0
        /\ heap[oid].packet_count >= 1

\* C7: between tracker operations a record is in the map if and only if its
\* active flag is true (TTL expiry and cap eviction both unlink the record
\* and leave it inactive).
C7_InMapIffActive ==
    \A oid \in 1..Len(heap) : InMap(oid) <=> heap[oid].is_active

\* C8: the tracker never holds more than max_flows records; an update whose
\* insert brought it to max_flows + 1 evicted exactly one record, and that
\* record had the oldest last_seen of all records in the map when
\* _evict_oldest ran.
C8_CapAndEvictOldest ==
    /\ Len(flows) <= max_flows
    /\ (ft_last.op = "update" /\ ft_last.inserted
            /\ ft_last.size_after_insert = max_flows + 1) =>
        /\ Len(ft_last.evicted) = 1
        /\ \A o \in DOMAIN ft_last.seen_by_evict :
              ft_last.seen_by_evict[ft_last.evicted[1]] <= ft_last.seen_by_evict[o]
        /\ DictOids(flows) = DOMAIN ft_last.seen_by_evict \ {ft_last.evicted[1]}

\* C8 witness: an insert into a full tracker evicted an older record that is
\* neither the first inserted nor the new one.
C8_Witness ==
    /\ ft_last.op = "update"
    /\ ft_last.inserted
    /\ ft_last.size_after_insert = max_flows + 1
    /\ Len(ft_last.evicted) = 1
    /\ ft_last.evicted[1] # ft_last.ret
    /\ ft_last.evicted[1] # 1
    /\ Len(flows) = max_flows

RECURSIVE SumPackets(_)
SumPackets(ws) ==
    IF ws = <<>> THEN 0 ELSE ws[1].total_packets + SumPackets(Tail(ws))

\* C4: add returns a sealed window exactly when the monotonic time since the
\* window start is at least the bucket size.  When it seals, exactly one
\* window is emitted, it holds the totals the bucket had before the call
\* (the triggering packet is not in it), and the fresh window starts now
\* and holds exactly the triggering packet.  When it does not seal, the
\* packet is added to the open window.
C4_SealIffElapsed ==
    b_last.op = "add" =>
        LET b == buckets[b_last.size]
            pre == b_last.before
            sealed == b_last.ret # <<>>
            w == b_last.ret[1]
            p == b_last.packet
        IN  /\ sealed <=> (b_last.elapsed >= b_last.size)
            /\ sealed =>
                  /\ Len(b_last.ret) = 1
                  /\ Len(b_log) = b_last.log_before + 1
                  /\ w.total_packets = pre.total_packets
                  /\ w.total_bytes = pre.total_bytes
                  /\ w.unique_src_ips = pre.unique_src_ips
                  /\ w.protocol_counts = pre.protocol_counts
                  /\ w.window_size_seconds = b_last.size
                  /\ b.window_start_mono = b_last.now
                  /\ b.total_packets = 1
                  /\ b.total_bytes = p.payload_size
                  /\ b.unique_src_ips = {p.src_ip}
                  /\ b.unique_dst_ips = {p.dst_ip}
                  /\ DOMAIN b.protocol_counts = {p.protocol}
            /\ ~sealed =>
                  /\ Len(b_log) = b_last.log_before
                  /\ b.total_packets = pre.total_packets + 1
                  /\ b.window_start_mono = pre.window_start_mono

\* C4 witness: a packet arrives exactly when the size has elapsed on a
\* window that already holds a packet, and the window is sealed.
C4_Witness ==
    /\ b_last.op = "add"
    /\ b_last.size = 10
    /\ b_last.elapsed = b_last.size
    /\ b_last.before.total_packets >= 1
    /\ b_last.ret # <<>>

\* C5: for a horizon, the total_packets of all windows emitted by add and
\* flush plus the packets in the open bucket equal the number of packets
\* added: every packet is counted in exactly one window.
C5_PacketsConserved ==
    \A size \in DOMAIN buckets :
        SumPackets(b_log) + buckets[size].total_packets = b_added

\* C5 witness: windows were emitted by add and by flush and a packet is
\* still in the open bucket.
C5_Witness ==
    /\ Len(b_log) >= 2
    /\ b_added >= 3
    /\ \E size \in DOMAIN buckets : buckets[size].total_packets = 1
    /\ \E i \in 1..Len(b_log) : b_log[i].total_packets >= 1

\* The sizes of the buckets of bk that hold at least one packet, in dict order.
NonEmptySizes(bk) == SelectSeq(BucketOrder, LAMBDA size : bk[size].total_packets > 0)

\* C9: the records in a sealed window's top_flows are copies: no later step
\* (tracker update, expiry) changes any field of a record that a window
\* already handed to _emit holds in its top_flows.
C9_TopFlowsAreCopies ==
    [][\A i \in 1..Len(win_log) :
          \A j \in 1..Len(win_log[i].top_flows) :
              heap'[win_log[i].top_flows[j]] = heap[win_log[i].top_flows[j]]]_vars

\* C10: when the aggregator task is cancelled, every bucket that holds at
\* least one packet is flushed as exactly one window (of that size, with
\* the bucket's totals) and put on the detection queue in bucket order,
\* a bucket that holds no packet emits nothing, and the task has ended.
C10_FlushOnCancel ==
    [][(agg_pc = "wait" /\ agg_pc' = "cancelled") =>
          LET full_sizes == NonEmptySizes(buckets)
              k == Len(full_sizes)
              n == Len(win_log)
              kept == Min(k, DetectionSize)
          IN  /\ Len(win_log') = n + k
              /\ SubSeq(win_log', 1, n) = win_log
              /\ \A i \in 1..k :
                    /\ win_log'[n + i].window_size_seconds = full_sizes[i]
                    /\ win_log'[n + i].total_packets = buckets[full_sizes[i]].total_packets
                    /\ win_log'[n + i].total_bytes = buckets[full_sizes[i]].total_bytes
              /\ stats'.windows_emitted = stats.windows_emitted + k
              /\ Len(detection_queue') >= kept
              /\ LastN(detection_queue', kept) = LastN(win_log', kept)
              /\ \A size \in WindowSizes : buckets'[size].total_packets = 0]_vars

\* C10 witness: the task was cancelled with packets in its buckets and three
\* windows with different totals were flushed.
C10_Witness ==
    /\ agg_pc = "cancelled"
    /\ agg_last.op = "cancel"
    /\ Len(agg_last.completed) = 3
    /\ agg_last.completed[1].total_packets < agg_last.completed[3].total_packets
    /\ Len(detection_queue) = DetectionSize

\* C11: no aggregated data is lost on shutdown: when run() has returned,
\* every window the aggregator flushed on cancellation has been handed to
\* engine.analyze.
C11_FlushedWindowsAnalyzed ==
    (run_pc = "stopped" /\ agg_last.op = "cancel") =>
        \A i \in 1..Len(agg_last.completed) :
            \E j \in 1..Len(analyzed) : analyzed[j] = agg_last.completed[i]

\* The rules of the last analyze call that got as far as the whitelist
\* check: they triggered with a confidence at or above the threshold.
Candidates ==
    {i \in 1..Len(EngineRules) :
        /\ e_last.outcomes[i].kind = "result"
        /\ e_last.outcomes[i].triggered
        /\ ~Lt(e_last.outcomes[i].confidence, CONFIDENCE_THRESHOLD)}

\* The source address the alert of rule i of the last analyze call carries.
CandidateSrc(i) ==
    make_alert(EngineRules[i], e_last.outcomes[i], e_last.window, e_last.now).src_ip

\* The alert dicts put on the alert queue before the last analyze call.
PriorAlerts == SubSeq(alert_puts, 1, Len(alert_puts) - Len(e_last.alerts))

\* C12: engine.analyze never raises when a rule's analyze raises; the
\* raising rule counts as not triggered and the call returns the alerts,
\* and leaves the cooldown map and the stats, that it would with the
\* raising rules absent from engine.rules.
C12_RaisingRuleIsolated ==
    e_last.op = "analyze" =>
        LET idx == SelectSeq([i \in 1..Len(EngineRules) |-> i],
                             LAMBDA i : e_last.outcomes[i].kind # "raise")
            ref == analyze(e_last.cooldowns, e_last.stats, e_whitelist,
                           [k \in 1..Len(idx) |-> EngineRules[idx[k]]],
                           [k \in 1..Len(idx) |-> e_last.outcomes[idx[k]]],
                           e_last.window, e_last.now)
        IN  /\ ~e_last.raised
            /\ det_pc # "crashed"
            /\ e_last.alerts = ref.alerts
            /\ e_cooldowns = ref.cooldowns
            /\ e_stats = ref.stats

\* C12 witness: the first rule raised and the second rule's alert was returned.
C12_Witness ==
    /\ e_last.op = "analyze"
    /\ e_last.outcomes[1].kind = "raise"
    /\ Len(e_last.alerts) = 1
    /\ e_last.alerts[1].rule_name = EngineRules[2].name

\* C13: no alert with a whitelisted source is ever returned; each such alert
\* is counted as whitelisted, and the cooldown map never holds a key of a
\* whitelisted source.
C13_WhitelistedNeverReturned ==
    /\ \A i \in 1..Len(alert_puts) : alert_puts[i].src_ip \notin e_whitelist
    /\ \A key \in DOMAIN e_cooldowns : \A i \in 1..Len(EngineRules) : \A w \in e_whitelist :
           key # cooldown_key(EngineRules[i].name, w)
    /\ e_last.op = "analyze" =>
           e_stats.alerts_whitelisted - e_last.stats.alerts_whitelisted =
               Cardinality({i \in Candidates : CandidateSrc(i) \in e_whitelist})

\* C13 witness: a rule triggered with full confidence for a whitelisted
\* source while the cooldown map already held a stamp, and was counted.
C13_Witness ==
    /\ e_last.op = "analyze"
    /\ \E i \in Candidates : CandidateSrc(i) \in e_whitelist
    /\ e_last.cooldowns # <<>>
    /\ e_stats.alerts_whitelisted > 0

\* C14: two returned alerts of the same (rule name, source) pair are at
\* least the cooldown apart; a candidate alert is returned exactly when no
\* alert of its own pair was returned less than a cooldown before, and is
\* counted as cooldown otherwise.
C14_CooldownPerPair ==
    /\ \A i, j \in 1..Len(alert_puts) :
           (i < j /\ alert_puts[i].rule_name = alert_puts[j].rule_name
                  /\ alert_puts[i].src_ip = alert_puts[j].src_ip)
               => alert_puts[j].timestamp - alert_puts[i].timestamp >= ALERT_COOLDOWN_SECONDS
    /\ e_last.op = "analyze" =>
           LET open == {i \in Candidates : CandidateSrc(i) \notin e_whitelist}
               recent(i) == \E k \in 1..Len(PriorAlerts) :
                               /\ PriorAlerts[k].rule_name = EngineRules[i].name
                               /\ PriorAlerts[k].src_ip = CandidateSrc(i)
                               /\ e_last.now - PriorAlerts[k].timestamp < ALERT_COOLDOWN_SECONDS
               returned(i) == \E k \in 1..Len(e_last.alerts) :
                                 e_last.alerts[k].rule_name = EngineRules[i].name
           IN  /\ \A i \in open : returned(i) <=> ~recent(i)
               /\ e_stats.alerts_cooldown - e_last.stats.alerts_cooldown =
                      Cardinality({i \in open : recent(i)})

\* C14 witness: within a cooldown of its pair's last alert a candidate was
\* dropped and counted, while the same call returned an alert of another
\* rule for the same source.
C14_Witness ==
    /\ e_last.op = "analyze"
    /\ e_stats.alerts_cooldown = e_last.stats.alerts_cooldown + 1
    /\ Len(e_last.alerts) = 1
    /\ \E k \in 1..Len(PriorAlerts) :
           /\ PriorAlerts[k].src_ip = e_last.alerts[1].src_ip
           /\ PriorAlerts[k].rule_name # e_last.alerts[1].rule_name
           /\ e_last.now - PriorAlerts[k].timestamp < ALERT_COOLDOWN_SECONDS

\* C15: alerts reach the alert queue window by window: the alerts of one
\* window are all put before any alert of a window dequeued later, and what
\* is on the queue is a run of consecutive puts in the order they were made.
C15_AlertsWindowByWindow ==
    /\ \A i, j \in 1..Len(alert_puts) :
           i < j => alert_puts[i].window_seq <= alert_puts[j].window_seq
    /\ \A i, j \in 1..Len(alert_queue) :
           i < j => alert_queue[i].window_seq <= alert_queue[j].window_seq
    /\ \E first \in 1..(Len(alert_puts) - Len(alert_queue) + 1) :
           alert_queue = SubSeq(alert_puts, first, first + Len(alert_queue) - 1)

\* C15 witness: the alert queue overflowed and holds alerts of two windows.
C15_Witness ==
    /\ Len(alert_queue) = AlertSize
    /\ alert_queue[1].window_seq < alert_queue[AlertSize].window_seq
    /\ Len(alert_puts) > AlertSize
    /\ METRICS.packets_dropped > 0

\* C16: an alert raised by the port_scan rule carries the severity of its
\* confidence band.
C16_PortScanSeverityBand ==
    \A i \in 1..Len(alert_puts) :
        alert_puts[i].rule_name = <<"port_scan">> =>
            alert_puts[i].severity = severity_for(alert_puts[i].confidence)

\* C17: when the analysed window is the 1 s window that holds the whole scan
\* (ScanPorts SYN packets from 10.0.0.1 to ports 1..ScanPorts), the engine
\* returns a port_scan alert for 10.0.0.1 with unique_ports_contacted =
\* ScanPorts.
C17_ScanThroughAggregatorAlerts ==
    \A j \in 1..Len(analyzed) :
        (/\ analyzed[j].window_size_seconds = 1
         /\ analyzed[j].total_packets = ScanPorts
         /\ analyzed[j].unique_src_ips = {<<1, 0>>}
         /\ analyzed[j].unique_dst_ports = 1..ScanPorts)
            => \E k \in 1..Len(alert_puts) :
                   /\ alert_puts[k].window_seq = j
                   /\ alert_puts[k].rule_name = <<"port_scan">>
                   /\ alert_puts[k].src_ip = str(<<1, 0>>)
                   /\ alert_puts[k].evidence.unique_ports_contacted = ScanPorts

(***************************************************************************)
(* The LLM gatekeeper (SpecGate)                                           *)
(***************************************************************************)
GateCalled == g_last.op = "should_call"

SamePair(a, b) == a.src_ip = b.src_ip /\ a.rule_name = b.rule_name

\* the approvals made before the last call that are younger than age
Younger(age) ==
    {i \in DOMAIN g_last.prior : g_last.now - g_last.prior[i].time < age}

PassesFilters ==
    g_last.reason \notin {"CACHE_HIT", "LOW_SEVERITY", "LOW_CONFIDENCE"}

\* C18: should_call reports the first failing check in the order cache hit,
\* severity, confidence, rate limit, cooldown, and APPROVED (with True) only
\* when none fails.
C18_FirstFailingCheck ==
    GateCalled =>
       LET a == g_last.alert
           first_failing ==
               IF \E i \in DOMAIN g_last.cached : g_last.cached[i] = cache_key(a)
               THEN "CACHE_HIT"
               ELSE IF a.severity \notin {"MEDIUM", "HIGH", "CRITICAL", "high"}
               THEN "LOW_SEVERITY"
               ELSE IF a.confidence.num * 10 < 5 * a.confidence.den
               THEN "LOW_CONFIDENCE"
               ELSE IF Cardinality(Younger(GATE_WINDOW_SECONDS)) >= g_max_calls
               THEN "RATE_LIMITED"
               ELSE IF \E i \in Younger(GATE_COOLDOWN_SECONDS) :
                          SamePair(g_last.prior[i].alert, a)
               THEN "COOLDOWN"
               ELSE "APPROVED"
       IN  /\ g_last.reason = first_failing
           /\ g_last.approved = (first_failing = "APPROVED")

\* a call that is both over the rate limit and inside its pair's cooldown
\* was answered RATE_LIMITED
C18_Witness ==
    /\ GateCalled
    /\ g_last.reason = "RATE_LIMITED"
    /\ Cardinality(Younger(GATE_WINDOW_SECONDS)) >= g_max_calls
    /\ \E i \in Younger(GATE_COOLDOWN_SECONDS) : SamePair(g_last.prior[i].alert, g_last.alert)

\* C19: with max_calls_per_minute approvals in the last 60 seconds the next
\* call that passes the filters is RATE_LIMITED; once none of the approvals
\* is younger than 60 seconds such a call is approved again; no 60-second
\* span ever holds more than max_calls_per_minute approvals.
C19_RateLimit ==
    /\ \A i \in DOMAIN g_approved :
          Cardinality({j \in 1..i : g_approved[i].time - g_approved[j].time
                                       < GATE_WINDOW_SECONDS}) <= g_max_calls
    /\ (GateCalled /\ PassesFilters) =>
          /\ Cardinality(Younger(GATE_WINDOW_SECONDS)) >= g_max_calls
                => g_last.reason = "RATE_LIMITED"
          /\ Younger(GATE_WINDOW_SECONDS) = {} => g_last.approved

\* max_calls_per_minute approvals were made, 60 seconds passed, and the next
\* call was approved
C19_Witness ==
    /\ GateCalled
    /\ g_last.approved
    /\ Len(g_last.prior) >= g_max_calls
    /\ Younger(GATE_WINDOW_SECONDS) = {}

\* C20: two approvals for the same (src_ip, rule_name) are at least
\* cooldown_seconds apart, and a call is answered COOLDOWN only because of
\* an approval of its own pair.
C20_CooldownPerPair ==
    /\ \A i, j \in DOMAIN g_approved :
          (i < j /\ SamePair(g_approved[i].alert, g_approved[j].alert))
             => g_approved[j].time - g_approved[i].time >= GATE_COOLDOWN_SECONDS
    /\ (GateCalled /\ g_last.reason = "COOLDOWN") =>
          \E i \in Younger(GATE_COOLDOWN_SECONDS) :
             SamePair(g_last.prior[i].alert, g_last.alert)

\* a call was approved although another rule had been approved for the same
\* source less than cooldown_seconds before
C20_Witness ==
    /\ GateCalled
    /\ g_last.approved
    /\ \E i \in Younger(GATE_COOLDOWN_SECONDS) :
          /\ g_last.prior[i].alert.src_ip = g_last.alert.src_ip
          /\ g_last.prior[i].alert.rule_name # g_last.alert.rule_name

(***************************************************************************)
(* The explanation cache (SpecCache)                                       *)
(***************************************************************************)
\* a put of one alert followed by a get of an alert that differs from it only
\* in confidence
PutThenGet ==
    /\ Len(cache_log) = 2
    /\ cache_log[1].op = "put"
    /\ cache_log[2].op = "get"

Apart(a, b) ==
    IF a.confidence.num >= b.confidence.num
    THEN a.confidence.num - b.confidence.num
    ELSE b.confidence.num - a.confidence.num

\* hundredths c lie nearest to tenth t; a value ending in 5 lies where its
\* binary double does
Near(c, t) ==
    \/ 10 * t - 5 < c /\ c < 10 * t + 5
    \/ c = 10 * t + 5 /\ c \in {15, 25, 35, 85, 95}
    \/ c = 10 * t - 5 /\ c \in {5, 45, 55, 65, 75}

\* C22 as stated: the lookup hits whenever the two confidences differ by
\* less than 0.1 and misses whenever they differ by 0.1 or more.
C22_BucketByDistance ==
    PutThenGet =>
        cache_log[2].hit = (Apart(cache_log[1].alert, cache_log[2].alert) < 10)

\* C22 amended: the lookup hits exactly when the two confidences round to
\* the same tenth; confidences more than 0.1 apart always miss.
C22_BucketByRounding ==
    PutThenGet =>
        LET c1 == cache_log[1].alert.confidence.num
            c2 == cache_log[2].alert.confidence.num
        IN  /\ cache_log[2].hit = (\E t \in 0..10 : Near(c1, t) /\ Near(c2, t))
            /\ Apart(cache_log[1].alert, cache_log[2].alert) > 10 => ~cache_log[2].hit

\* 0.84 was stored and 0.86, which is 0.02 away, missed
C22_Witness ==
    /\ PutThenGet
    /\ cache_log[1].alert.confidence.num = 84
    /\ cache_log[2].alert.confidence.num = 86
    /\ ~cache_log[2].hit

\* the uses of the cache up to call n: every put and every get that hit
LastUse(key, n) ==
    LET uses == {i \in 1..n : /\ cache_key(cache_log[i].alert) = key
                              /\ cache_log[i].op = "put" \/ cache_log[i].hit}
    IN  IF uses = {} THEN 0 ELSE CHOOSE i \in uses : \A j \in uses : j <= i

\* C23: the cache never holds more than maxsize entries, and a put that
\* exceeds the capacity removes exactly the least recently used entry, a put
\* and a get that hits both counting as a use.
C23_LruEviction ==
    /\ Len(g_cache.keys) <= g_cache.maxsize
    /\ \A n \in DOMAIN cache_log :
          LET call == cache_log[n]
              held == {call.before[i] : i \in DOMAIN call.before}
                         \cup {cache_key(call.alert)}
          IN  call.op = "put" =>
                 IF Cardinality(held) <= g_cache.maxsize
                 THEN call.evicted = {}
                 ELSE \E old \in held :
                         /\ call.evicted = {old}
                         /\ \A k \in held \ {old} : LastUse(old, n) < LastUse(k, n)

\* a put evicted an entry that was put before another one but not the one a
\* later get had hit
C23_Witness ==
    \E n \in DOMAIN cache_log : \E m \in 1..(n - 1) :
        /\ cache_log[n].op = "put"
        /\ cache_log[n].evicted # {}
        /\ cache_log[m].op = "get"
        /\ cache_log[m].hit
        /\ cache_log[m].before[1] = cache_key(cache_log[m].alert)
        /\ cache_key(cache_log[m].alert) \notin cache_log[n].evicted
        /\ Len(cache_log[n].before) = 2
        /\ cache_log[n].before[2] = cache_key(cache_log[m].alert)

(***************************************************************************)
(* The LLM client (SpecClient)                                             *)
(***************************************************************************)
IsFallback(call) ==
    call.returned = <<get_fallback(call.alert.rule_name)>>

\* the run is two explain calls for the same alert, which passes the
\* severity and confidence filters, less than cooldown_seconds apart
TwiceWithinCooldown ==
    /\ Len(llm_log) = 2
    /\ llm_log[1].alert = llm_log[2].alert
    /\ llm_log[1].alert.severity = "HIGH"
    /\ llm_log[1].alert.confidence.num >= 50
    /\ llm_log[2].now - llm_log[1].now < GATE_COOLDOWN_SECONDS

\* the first call was sent to the model server, or answered with the
\* fallback because the server was not available
FirstEntersLlm ==
    \/ llm_log[1].post.status # "none"
    \/ llm_log[1].probe \in {"status", "error"} /\ IsFallback(llm_log[1])

\* C21 as stated: the second call is blocked by the cooldown and answered
\* with the rule fallback, the cache staying as it was.
C21_SecondBlockedByCooldown ==
    TwiceWithinCooldown =>
        /\ FirstEntersLlm
        /\ llm_log[2].reason = "COOLDOWN"
        /\ IsFallback(llm_log[2])
        /\ llm_log[2].cache_after = llm_log[2].cache_before

\* C21 amended: when the first call's response was validated and stored, the
\* second call is a cache hit and returns the stored explanation; otherwise
\* it is blocked by the cooldown and answered with the rule fallback, the
\* cache's entries staying as they were.
C21_SecondCachedOrCooldown ==
    TwiceWithinCooldown =>
        /\ FirstEntersLlm
        /\ IF llm_log[1].post.status = "ok" /\ llm_log[1].post.content = ValidJson
           THEN /\ llm_log[2].reason = "CACHE_HIT"
                /\ llm_log[2].returned = llm_log[1].returned
                /\ ~IsFallback(llm_log[2])
           ELSE /\ llm_log[2].reason = "COOLDOWN"
                /\ IsFallback(llm_log[2])
        /\ llm_log[2].cache_after = llm_log[2].cache_before

\* the first call's response was stored and the second call was a cache hit
C21_Witness ==
    /\ TwiceWithinCooldown
    /\ llm_log[1].post.content = ValidJson
    /\ llm_log[2].reason = "CACHE_HIT"

\* C24: explain always returns an explanation: the rule's fallback for every
\* gatekeeper rejection other than a cache hit, for an unavailable server,
\* a timeout, a failed request, an empty response and invalid model output;
\* only a response that passed validation is returned as a non-fallback and
\* stored in the cache.
C24_AlwaysAnExplanation ==
    \A i \in DOMAIN llm_log :
        LET call == llm_log[i]
            validated == call.post.status = "ok" /\ call.post.content = ValidJson
        IN  /\ Len(call.returned) = 1
            /\ IsFallback(call) = ~(validated \/ call.reason = "CACHE_HIT")
            /\ call.returned[1].fallback_used = IsFallback(call)
            /\ IF validated
               THEN /\ cache_key(call.alert) \in DOMAIN call.cache_after.values
                    /\ call.cache_after.values[cache_key(call.alert)] = call.returned[1]
               ELSE call.cache_after = call.cache_before

\* the server answered with text that is not the required JSON and the
\* fallback was returned
C24_Witness ==
    \E i \in DOMAIN llm_log :
        /\ llm_log[i].post = [status |-> "ok", content |-> "oops"]
        /\ IsFallback(llm_log[i])

\* C25: a call that passed the gatekeeper makes no probe while the server is
\* marked available; a failed request marks the server unavailable; and
\* while it is marked unavailable a call contacts the server neither with a
\* probe nor with a request and returns the fallback.
C25_AvailabilityCached ==
    \A i \in DOMAIN llm_log :
        LET call == llm_log[i]
        IN  call.reason = "APPROVED" =>
               /\ call.available_before = "True" => call.probe = "none"
               /\ (call.post.status \in {"timeout", "error"}
                     \/ call.post = [status |-> "ok", content |-> ""])
                    => call.available_after = "False"
               /\ call.available_before = "False" =>
                     /\ call.probe = "none"
                     /\ call.post.status = "none"
                     /\ IsFallback(call)

(***************************************************************************)
(* Storage (SpecStore)                                                     *)
(***************************************************************************)
LastCall == db_log[Len(db_log)]

\* C26: save_alert is idempotent on alert_id: the table holds one row for
\* each alert_id whose save executed, a first save stores the alert's
\* columns, and a repeated save of an alert_id leaves the stored row as it
\* was, explanation included.
C26_SaveAlertIdempotent ==
    /\ DOMAIN db_alerts =
          { db_log[i].alert.alert_id :
               i \in { j \in DOMAIN db_log : /\ db_log[j].op = "save_alert"
                                             /\ db_log[j].outcome = "ok" } }
    /\ (db_log # <<>> /\ LastCall.op = "save_alert") =>
          LET id == LastCall.alert.alert_id
          IN  IF id \in DOMAIN LastCall.before \/ LastCall.outcome = "fail"
              THEN db_alerts = LastCall.before
              ELSE /\ DOMAIN db_alerts = DOMAIN LastCall.before \cup {id}
                   /\ db_alerts[id].rule_name = LastCall.alert.rule_name
                   /\ \A o \in DOMAIN LastCall.before : db_alerts[o] = LastCall.before[o]

\* an alert_id whose row carries an explanation was saved again with another
\* rule name, and the row is as it was
C26_Witness ==
    /\ db_log # <<>>
    /\ LastCall.op = "save_alert" /\ LastCall.outcome = "ok"
    /\ LastCall.alert.alert_id \in DOMAIN LastCall.before
    /\ LastCall.before[LastCall.alert.alert_id].llm_explanation # <<>>
    /\ LastCall.before[LastCall.alert.alert_id].rule_name # LastCall.alert.rule_name
    /\ db_alerts = LastCall.before

\* C27: after every save_stats_snapshot the table holds at most
\* SnapshotMaxRows rows, and they are the rows inserted last.
C27_KeepsNewestInserted ==
    /\ Len(db_snapshots) <= SnapshotMaxRows
    /\ { db_snapshots[i].id : i \in DOMAIN db_snapshots }
          = { id \in 1..db_seq : id > db_seq - SnapshotMaxRows }

Versions(seq) == { seq[i] : i \in DOMAIN seq }

\* C28: apply_migrations runs the migrations whose version is above the
\* highest recorded version, in ascending order and each once, up to the
\* first that raises; it runs none at or below the recorded version, so a
\* second start or a resumed one never runs a recorded migration again.
C28_PendingMigrationsRun ==
    \A i \in DOMAIN db_log :
        LET call == db_log[i]
            pending == SelectSeq(call.migrations,
                          LAMBDA m : \A w \in call.versions_before : m.version > w)
        IN  call.op = "apply_migrations" =>
               /\ Len(call.ran) <= Len(pending)
               /\ \A k \in DOMAIN call.ran : call.ran[k] = pending[k].version
               /\ \A k \in DOMAIN call.ran : \A l \in DOMAIN call.ran :
                     k < l => call.ran[k] < call.ran[l]
               /\ ~call.raised => Len(call.ran) = Len(pending)
               /\ call.raised => call.ran # <<>>
               /\ Versions(call.ran) \cap call.versions_before = {}

\* a second start with versions 2 and 3 in the list, 2 being recorded: only
\* migration 3 runs
C28_Witness ==
    /\ Len(db_log) = 2
    /\ LastCall.op = "apply_migrations"
    /\ LastCall.versions_before = {1, 2}
    /\ Len(LastCall.migrations) = 2
    /\ LastCall.ran = <<3>>

\* C29: when a migration raises, what it did is rolled back: the recorded
\* versions are those of the migrations that succeeded, the failed version is
\* not recorded, and the schema carries the changes of the succeeded
\* migrations only.
C29_FailedMigrationRolledBack ==
    (db_log # <<>> /\ LastCall.op = "apply_migrations" /\ LastCall.raised) =>
        LET failed == LastCall.ran[Len(LastCall.ran)]
            succeeded == Versions(LastCall.ran) \ {failed}
        IN  /\ db_versions = LastCall.versions_before \cup succeeded
            /\ failed \notin db_versions
            /\ db_schema = LastCall.schema_before \cup succeeded

(***************************************************************************)
(* Shutdown order (SpecShutdown)                                           *)
(***************************************************************************)
\* run() has cancelled the consumer tasks (main.py:332-333)
ConsumersCancelled == run_pc \in {"gather", "stopped"}

\* run() has called capture.stop() (main.py:335) and db.close() (main.py:336)
CaptureStopped == run_pc = "stopped"

StorageClosed == run_pc = "stopped"

\* C30: on shutdown the flag is set first, capture is stopped before the
\* consumers are cancelled, and storage is closed only after every consumer
\* task has ended.
C30_ShutdownOrder ==
    /\ ConsumersCancelled => shutdown_event
    /\ ConsumersCancelled => CaptureStopped
    /\ StorageClosed => /\ agg_pc = "cancelled"
                        /\ det_pc \in {"exited", "crashed"}

(***************************************************************************)
(* The drop counter (SpecAgg)                                              *)
(***************************************************************************)
\* packets put on the capture queue that the aggregator neither dequeued
\* nor can still dequeue: those displaced by safe_put
CapturePacketsDropped == agg_fed - stats.packets_processed - Len(capture_queue)

\* C31: packets_dropped equals the number of packets displaced from the
\* capture queue; windows displaced from the detection queue are not
\* counted in it.
C31_DropsArePackets ==
    METRICS.packets_dropped = CapturePacketsDropped

(***************************************************************************)
(* Seal order (SpecAgg)                                                    *)
(***************************************************************************)
\* C33: the windows that one packet seals are handed to _emit in the order
\* 1 s, 10 s, 60 s and are all on the detection queue, in that order, at the
\* end of the step that processed the packet, before the next packet is
\* dequeued.
C33_SealOrder ==
    [][stats'.packets_processed = stats.packets_processed + 1 =>
          LET sealed == SubSeq(win_log', Len(win_log) + 1, Len(win_log'))
              kept == Min(Len(sealed), DetectionSize)
          IN  /\ SubSeq(win_log', 1, Len(win_log)) = win_log
              /\ \A i \in DOMAIN sealed : \A j \in DOMAIN sealed :
                    i < j => sealed[i].window_size_seconds < sealed[j].window_size_seconds
              /\ \A i \in DOMAIN sealed : sealed[i].window_size_seconds \in WindowSizes
              /\ LastN(detection_queue', kept) = LastN(sealed, kept)
              /\ capture_queue' = Tail(capture_queue)]_vars

\* one packet sealed the three windows, each holding the packet before it
C33_Witness ==
    /\ agg_last.op = "packet"
    /\ Len(agg_last.completed) = 3
    /\ \A i \in 1..3 : agg_last.completed[i].total_packets = 1
    /\ LastN(detection_queue, 3) = agg_last.completed
    /\ agg_last.completed[1].window_size_seconds = 1
    /\ agg_last.completed[3].window_size_seconds = 60

(***************************************************************************)
(* flows_started (SpecAgg)                                                 *)
(***************************************************************************)
RECURSIVE SumStarted(_, _)
SumStarted(ws, size) ==
    IF ws = <<>> THEN 0
    ELSE (IF ws[1].window_size_seconds = size THEN ws[1].flows_started ELSE 0)
         + SumStarted(Tail(ws), size)

\* C34: flows_started of a sealed window is the number of flows first seen
\* by the packets the window counts.  Every packet is counted in one window
\* of each horizon, so for each horizon the flows_started of its sealed
\* windows add up to the flows started by the packets sealed so far: never
\* more than the flows created, and all of them when the open bucket of that
\* horizon holds no packet.
C34_FlowsStartedCounted ==
    \A size \in WindowSizes :
        /\ SumStarted(win_log, size) <= Len(heap)
        /\ SumStarted(win_log, size) >= Len(heap) - buckets[size].total_packets

(***************************************************************************)
(* The record update returns (SpecTracker)                                 *)
(***************************************************************************)
\* C38: the record returned by update is in the tracker's map when the call
\* returns, whatever the packet timestamps: the eviction run by an insert
\* never removes the record that insert created.
C38_ReturnedRecordInMap ==
    ft_last.op = "update" =>
        /\ InMap(ft_last.ret)
        /\ ft_last.inserted => \A i \in DOMAIN ft_last.evicted :
                                   ft_last.evicted[i] # ft_last.ret

(***************************************************************************)
(* The engine's counters (SpecDetect)                                      *)
(***************************************************************************)
Decided(engine_stats) ==
    engine_stats.alerts_suppressed + engine_stats.alerts_whitelisted
        + engine_stats.alerts_cooldown + engine_stats.alerts_fired

\* C36: windows_analyzed is the number of analyze calls and alerts_fired the
\* number of alerts returned so far; each call counts every triggered rule
\* result in exactly one of alerts_suppressed, alerts_whitelisted,
\* alerts_cooldown and alerts_fired, and alerts_fired grows by the number of
\* alerts the call returned.
C36_CountersPartition ==
    /\ e_stats.windows_analyzed = Len(analyzed)
    /\ e_stats.alerts_fired = Len(alert_puts)
    /\ e_last.op = "analyze" =>
          LET triggered == { i \in DOMAIN e_last.outcomes :
                                /\ e_last.outcomes[i].kind = "result"
                                /\ e_last.outcomes[i].triggered }
          IN  /\ e_stats.windows_analyzed = e_last.stats.windows_analyzed + 1
              /\ Decided(e_stats) = Decided(e_last.stats) + Cardinality(triggered)
              /\ e_stats.alerts_fired = e_last.stats.alerts_fired + Len(e_last.alerts)
              /\ \A c \in {"alerts_suppressed", "alerts_whitelisted",
                           "alerts_cooldown", "alerts_fired"} :
                    e_stats[c] >= e_last.stats[c]

\* every counter has counted: a result was suppressed, one whitelisted, one
\* held back by the cooldown and one fired
C36_Witness ==
    /\ e_last.op = "analyze"
    /\ e_stats.windows_analyzed = 2
    /\ e_stats.alerts_suppressed = 1
    /\ e_stats.alerts_whitelisted = 1
    /\ e_stats.alerts_cooldown = 1
    /\ e_stats.alerts_fired = 1

(***************************************************************************)
(* Packets in flight between the threads (SpecCapture)                     *)
(***************************************************************************)
\* C37: the packets the callback has handed over and that were neither
\* consumed nor dropped (those held by a scheduled safe_put and those on the
\* capture queue) never number more than the capture queue's capacity.
C37_HandoverBounded ==
    Len(loop_ready) + Len(capture_queue) <= CaptureSize

(***************************************************************************)
(* Cache lookups per explain call (SpecClient)                             *)
(***************************************************************************)
ServedFromCache == { i \in DOMAIN llm_log : llm_log[i].reason = "CACHE_HIT" }

\* C39: every explain call makes one counted cache lookup, so hits + misses
\* is the number of explain calls, and hits is the number of explanations
\* served from the cache.
C39_OneCountedLookup ==
    /\ g_cache.hits + g_cache.misses = Len(llm_log)
    /\ g_cache.hits = Cardinality(ServedFromCache)
    /\ llm_stats.cache_hits = Cardinality(ServedFromCache)


\* The storage calls llm_consumer made in this step.
NewWrites == SubSeq(db_log', Len(db_log) + 1, Len(db_log'))

\* C35: a failing storage write never stops the pipeline. In every step in
\* which llm_consumer's save_alert or update_alert_llm fails, the write is
\* dropped (a failed save inserts no row, a failed update leaves the row's
\* explanation as it was), the consumer still broadcasts that alert on the
\* "alerts" channel, and it stays in its loop, waiting for the next alert,
\* unless the shutdown event is set.
C35_FailedWriteDoesNotStop ==
    [][(db_log' # db_log /\ \E i \in DOMAIN NewWrites : NewWrites[i].outcome = "fail") =>
          LET alert_dict == llm_taken[Len(llm_taken)]
              id == alert_id(alert_dict)
          IN  /\ Len(NewWrites) = 2
              /\ NewWrites[1].op = "save_alert" /\ NewWrites[1].alert.alert_id = id
              /\ NewWrites[2].op = "update_alert_llm" /\ NewWrites[2].alert_id = id
              /\ NewWrites[1].outcome = "fail" => DOMAIN db_alerts' = DOMAIN db_alerts
              /\ NewWrites[2].outcome = "fail" =>
                    \A k \in DOMAIN db_alerts' : db_alerts'[k].llm_explanation = <<>>
                                                  \/ (k \in DOMAIN db_alerts
                                                      /\ db_alerts'[k] = db_alerts[k])
              /\ Len(ws_alerts') = Len(ws_alerts) + 1
              /\ ws_alerts'[Len(ws_alerts')].alert = alert_dict
              /\ llm_pc' = IF shutdown_event THEN "exited" ELSE "wait"
              /\ alert_queue' = alert_queue
      ]_vars

\* The first alert's save failed, it was broadcast all the same, and the
\* consumer went on to save and broadcast the next alert.
C35_Witness ==
    /\ Len(ws_alerts) = 2
    /\ Len(db_log) = 4
    /\ db_log[1].op = "save_alert" /\ db_log[1].outcome = "fail"
    /\ ws_alerts[1].alert = llm_taken[1]
    /\ db_log[3].op = "save_alert" /\ db_log[3].outcome = "ok"
    /\ alert_id(llm_taken[2]) \in DOMAIN db_alerts
    /\ alert_id(llm_taken[1]) \notin DOMAIN db_alerts
    /\ ws_alerts[2].alert = llm_taken[2]

\* Alerts handed to safe_put that are neither on the alert queue nor taken
\* by llm_consumer: safe_put displaced them and counted each in
\* METRICS.packets_dropped.
Displaced(alert_dict) ==
    /\ \A i \in DOMAIN alert_queue : alert_queue[i] # alert_dict
    /\ \A i \in DOMAIN llm_taken : llm_taken[i] # alert_dict

\* C40: every alert returned by the detection engine is eventually saved to
\* storage or counted as dropped by a queue overflow, alerts on the alert
\* queue or being enriched when shutdown begins included. Once run() has
\* returned nothing more happens to an alert, so by then each alert handed
\* to the alert queue has its row in the alerts table or was displaced.
C40_AlertsSavedOrDropped ==
    run_pc = "stopped" =>
        \A i \in DOMAIN alert_puts :
            \/ alert_id(alert_puts[i]) \in DOMAIN db_alerts
            \/ Displaced(alert_puts[i])

\* C32: after the shutdown flag is set every pipeline task terminates and
\* run() returns, whatever each task was doing or waiting on at that moment.
\* Under the event loop's scheduling, a set shutdown event leads to run()
\* having returned.
C32_ShutdownTerminates == shutdown_event ~> (run_pc = "stopped")

====
